---- MODULE Spec2Model ----
(***************************************************************************)
(* DV-STM: dual-versioned software transactional memory.                    *)
(*                                                                          *)
(* The model follows dv-stm/tm.c (the transaction API), 371274/batcher.c    *)
(* (the thread batcher, batcher_leave with rollback and the end-of-epoch    *)
(* procedure) and 371274/batcher.h (the data layout and the constants).     *)
(*                                                                          *)
(* A 64-bit access-set word is modelled as the set of its set bits; the     *)
(* comparisons and the bitwise operators of the code are defined on those   *)
(* sets.  The word has MAX_RW_TX + 1 bits: one per read/write transaction   *)
(* id and the most significant one, WRITTEN.                                *)
(*                                                                          *)
(* A memory word holds a value <<epoch, tx, k>>: the bytes of the k-th      *)
(* write of transaction tx of that epoch; ZeroWord is the zero-initialised  *)
(* word.  Every write of a behaviour therefore stores a different value.    *)
(***************************************************************************)
EXTENDS Integers, Sequences, FiniteSets, TLC

\* ------------------------------------------------------------------------
\* Bounds of the model
\* ------------------------------------------------------------------------

\* Max no. of R/W TX per batch (63 in the source), scaled down.  The access
\* set has one bit per R/W TX id and bit MAX_RW_TX is the written? flag.
MAX_RW_TX == 2

\* User threads of the full system.
NThreads == 3

\* Words of the first segment (size / align).
NumWords == 2

\* Operations one transaction records in its history.
MaxOps == 2

\* Last epoch a transaction is admitted into.
MaxEpoch == 1

\* Words of a segment of the system that allocates (size / align), of the
\* first segment as of those tm_alloc creates.
SegWords == 1

\* ------------------------------------------------------------------------
\* Program constants
\* ------------------------------------------------------------------------

FIRST_SEG == 1

\* Slots of the segment table (64 in the source), scaled down.
MAX_SEG == 4

invalid_tx == -1

SegIds == FIRST_SEG .. (MAX_SEG - 1)

RwTxIds == 0 .. (MAX_RW_TX - 1)

\* ------------------------------------------------------------------------
\* 64-bit words as sets of bit positions
\* ------------------------------------------------------------------------

Bits == 0 .. MAX_RW_TX

\* #define WRITTEN 0x8000000000000000 // MSB set
WRITTEN == {MAX_RW_TX}

\* (uint64_t) 1 << tx
Pattern(t) == {t}

MaxBit(S) == CHOOSE b \in S : \A c \in S : c <= b

\* a > b on unsigned words: the highest bit on which they differ is a's
Gt(a, b) == a # b /\ MaxBit((a \ b) \cup (b \ a)) \in a

Lt(a, b) == Gt(b, a)

BitAnd(a, b) == a \cap b

BitOr(a, b) == a \cup b

BitNot(a) == Bits \ a

\* ------------------------------------------------------------------------
\* State
\* ------------------------------------------------------------------------

VARIABLES
    counter,     \* batcher: current epoch
    rw_tx,       \* batcher: next R/W TX id
    ro_tx,       \* batcher: next RO TX id
    remaining,   \* batcher: outstanding threads of the current epoch
    blocked,     \* batcher: threads waiting for the next epoch
    allocs,      \* region: segment table, NULL or a segment node
    top,         \* region: segment-id stack top
    segment_id,  \* region: segment-id stack
    history,     \* region: per R/W TX id, the list of op records (head first)
    pc,          \* per thread: idle | wait | run | leave
    tx,          \* per thread: the TX id batcher_enter returned
    epoch0,      \* per thread: _counter, the epoch read on entering
    committed,   \* per thread: batcher_leave's argument
    r,           \* per thread: batcher_leave's cursor into the history
    res,         \* per thread: what the call that is leaving will return
    aset_locks,  \* per word of a segment: 0 (clear) or the thread that set it
    locking,     \* per thread: the tm_read, tm_write or rollback of a record
                 \* that is taking or releasing per-word locks
    ev,          \* the last step taken: operation, thread, result, bytes read
    snap,        \* the RO copy of each segment as the current epoch began
    outcome,     \* per R/W TX id of the current epoch: none | commit | abort
    aborted,     \* the aborted transactions <<epoch, tx>> of earlier epochs
                 \* whose bytes are still in some copy of a segment
    started      \* the number of threads that have begun a transaction

batcherVars == <<counter, rw_tx, ro_tx, remaining, blocked>>

regionVars == <<allocs, top, segment_id, history>>

threadVars == <<pc, tx, epoch0, committed, r, res>>

lockVars == <<aset_locks, locking>>

vars == <<counter, rw_tx, ro_tx, remaining, blocked, allocs, top, segment_id,
          history, pc, tx, epoch0, committed, r, res, aset_locks, locking,
          ev,
          snap, outcome, aborted, started>>

Threads == DOMAIN pc

ZeroWord == <<0, 0, 0>>

NULL == [seg_id |-> 0, size |-> 0, freed |-> FALSE, written |-> FALSE,
         aset |-> <<>>, ro |-> <<>>, rw |-> <<>>]

NoEv == [op |-> "none", t |-> 0, tx |-> 0, ok |-> TRUE, seg |-> 0,
         first |-> 0, n |-> 0, vals |-> <<>>, log |-> <<>>,
         is_ro |-> FALSE, locks |-> {}]

Ev(op, t, id, ok, seg, first, n, vals, log) ==
    [op |-> op, t |-> t, tx |-> id, ok |-> ok, seg |-> seg,
     first |-> first, n |-> n, vals |-> vals, log |-> log,
     is_ro |-> FALSE, locks |-> {}]

\* The event of a tm_begin(shared, is_ro)
EvBegin(e, is_ro) == [e EXCEPT !.is_ro = is_ro]

\* The event of an operation that calls batcher_leave holding these locks
EvHeld(e, locks) == [e EXCEPT !.locks = locks]

\* No operation of the thread is taking or releasing per-word locks
NoOp == [kind |-> "none", seg |-> 0, first |-> 0, n |-> 0, i |-> 0, got |-> 0,
         phase |-> "none", abort |-> FALSE]

\* Words first .. first + n - 1 of a segment
Range(first, n) == first .. (first + n - 1)

\* ------------------------------------------------------------------------
\* tm_create: the state after construction
\* ------------------------------------------------------------------------

\* alloc_segment: a segment node with zeroed access sets and zeroed copies
NewSegment(id, words) ==
    [seg_id |-> id, size |-> words, freed |-> FALSE, written |-> FALSE,
     aset |-> [i \in 1 .. words |-> {}],
     ro |-> [i \in 1 .. words |-> ZeroWord],
     rw |-> [i \in 1 .. words |-> ZeroWord]]

\* tm_create(size, align) with size / align = words
CreateRegion(words) ==
    /\ counter = 0
    /\ rw_tx = 0
    /\ ro_tx = MAX_RW_TX
    /\ remaining = 0
    /\ blocked = 0
    /\ allocs = [i \in SegIds |->
                    IF i = FIRST_SEG THEN NewSegment(FIRST_SEG, words) ELSE NULL]
    /\ top = FIRST_SEG + 1
    /\ segment_id = [i \in 0 .. (MAX_SEG - 1) |-> i]
    /\ history = [i \in RwTxIds |-> <<>>]
    /\ aset_locks = [i \in SegIds |-> [w \in 1 .. words |-> 0]]
    /\ ev = NoEv
    /\ snap = [i \in SegIds |-> allocs[i].ro]
    /\ outcome = [i \in RwTxIds |-> "none"]
    /\ aborted = {}
    /\ started = 0

InitRegion == CreateRegion(NumWords)

InitThreads(n) ==
    /\ pc = [t \in 1 .. n |-> "idle"]
    /\ tx = [t \in 1 .. n |-> 0]
    /\ epoch0 = [t \in 1 .. n |-> 0]
    /\ committed = [t \in 1 .. n |-> TRUE]
    /\ r = [t \in 1 .. n |-> <<>>]
    /\ res = [t \in 1 .. n |-> <<>>]
    /\ locking = [t \in 1 .. n |-> NoOp]

Init == InitRegion /\ InitThreads(NThreads)

\* ------------------------------------------------------------------------
\* Op records (rw, af)
\* ------------------------------------------------------------------------

\* struct record of a tm_read / tm_write
rw(type, seg, first, n) ==
    [type |-> type, seg_id |-> seg, offset |-> first, size |-> n]

\* struct record of a tm_alloc / tm_free
af(type, seg) ==
    [type |-> type, seg_id |-> seg, offset |-> 0, size |-> 0]

\* ------------------------------------------------------------------------
\* batcher_enter and tm_begin
\* ------------------------------------------------------------------------

\* Mutant: one more R/W TX is let into the next epoch
Rejected_OneMore(next) == next > MAX_RW_TX

\* R/W TX rejected: the R/W TX no. is capped at MAX_RW_TX
Rejected(next) == next >= MAX_RW_TX

\* tm_begin clears the history of an admitted R/W TX
BeginHistory(id) ==
    IF id < MAX_RW_TX THEN [history EXCEPT ![id] = <<>>] ELSE history

\* The epoch a thread entering now would run in
EntryEpoch == IF remaining = 0 THEN counter ELSE counter + 1

\* First thread of an epoch: it runs at once
EnterFirst(t, is_ro) ==
    LET id == IF is_ro THEN MAX_RW_TX ELSE 0 IN
    /\ remaining = 0
    /\ remaining' = 1
    /\ tx' = [tx EXCEPT ![t] = id]
    /\ epoch0' = [epoch0 EXCEPT ![t] = counter]
    /\ pc' = [pc EXCEPT ![t] = "run"]
    /\ history' = BeginHistory(id)
    /\ ev' = EvBegin(Ev("begin", t, id, TRUE, 0, 0, 0, <<>>, <<>>), is_ro)
    /\ UNCHANGED <<counter, rw_tx, ro_tx, blocked, allocs, top, segment_id,
                   committed, r, res, snap, outcome, aborted>>

\* Mutant: the rejected thread is counted among the blocked ones
EnterReject_Counted(t) ==
    /\ remaining # 0
    /\ Rejected(rw_tx)
    /\ blocked' = blocked + 1
    /\ ev' = EvBegin(Ev("begin", t, invalid_tx, FALSE, 0, 0, 0, <<>>, <<>>),
                      FALSE)
    /\ UNCHANGED <<counter, rw_tx, ro_tx, remaining, regionVars, threadVars,
                   snap, outcome, aborted>>

\* R/W TX rejected
EnterReject(t) ==
    /\ remaining # 0
    /\ Rejected(rw_tx)
    /\ ev' = EvBegin(Ev("begin", t, invalid_tx, FALSE, 0, 0, 0, <<>>, <<>>),
                      FALSE)
    /\ UNCHANGED <<batcherVars, regionVars, threadVars, snap, outcome, aborted>>

\* Mutant: every TX of a kind is handed the first id of the kind
get_tx_id_First(is_ro) == IF is_ro THEN MAX_RW_TX ELSE 0

\* Determine TX ID: tx_id = ro_tx++ or tx_id = rw_tx++
get_tx_id(is_ro) == IF is_ro THEN ro_tx ELSE rw_tx

\* The epoch is unfinished: take an id and wait for the next one
EnterWait(t, is_ro) ==
    LET id == get_tx_id(is_ro) IN
    /\ remaining # 0
    /\ is_ro \/ ~Rejected(rw_tx)
    /\ ro_tx' = IF is_ro THEN ro_tx + 1 ELSE ro_tx
    /\ rw_tx' = IF is_ro THEN rw_tx ELSE rw_tx + 1
    /\ blocked' = blocked + 1
    /\ tx' = [tx EXCEPT ![t] = id]
    /\ epoch0' = [epoch0 EXCEPT ![t] = counter]
    /\ pc' = [pc EXCEPT ![t] = "wait"]
    /\ ev' = EvBegin(Ev("wait", t, id, TRUE, 0, 0, 0, <<>>, <<>>), is_ro)
    /\ UNCHANGED <<counter, remaining, regionVars, committed, r, res, snap,
                   outcome, aborted>>

\* The threads are interchangeable: they are numbered in the order in which
\* they begin their first transaction
FirstUse(t) ==
    /\ t <= started + 1
    /\ started' = IF t = started + 1 THEN t ELSE started

TmBegin(t, is_ro) ==
    /\ pc[t] = "idle"
    /\ EntryEpoch <= MaxEpoch
    /\ FirstUse(t)
    /\ \/ EnterFirst(t, is_ro)
       \/ ~is_ro /\ EnterReject(t)
       \/ EnterWait(t, is_ro)

\* Mutant: pthread_cond_wait returns whether or not the epoch has changed
Released_Always(_counter) == TRUE

\* Mutant: the wait of the template batcher, while (remaining > 0)
Released_Drained(_counter) == remaining = 0

\* The wait is over: while (_counter == batcher->counter) is false
Released(_counter) == _counter # counter

\* pthread_cond_wait returns and the epoch has changed: batcher_enter and
\* tm_begin return
Wake(t) ==
    /\ pc[t] = "wait"
    /\ Released(epoch0[t])
    /\ pc' = [pc EXCEPT ![t] = "run"]
    /\ history' = BeginHistory(tx[t])
    /\ ev' = EvBegin(Ev("wake", t, tx[t], TRUE, 0, 0, 0, <<>>, <<>>),
                      tx[t] >= MAX_RW_TX)
    /\ UNCHANGED <<batcherVars, allocs, top, segment_id, tx, epoch0,
                   committed, r, res, snap, outcome, aborted, started>>

\* ------------------------------------------------------------------------
\* batcher_leave: the walk over the history of the leaving R/W TX
\* ------------------------------------------------------------------------

\* READ record of an aborted TX: aset[i] &= ~((uint64_t) 1 << tx)
ResetRead(bitmap, id) == BitAnd(bitmap, BitNot(Pattern(id)))

\* WRITE record of an aborted TX: aset[i] &= ~(WRITTEN & ((uint64_t) 1 << tx))
ResetWrite(bitmap, id) == BitAnd(bitmap, BitNot(BitAnd(WRITTEN, Pattern(id))))

\* READ record, aborted: the access sets of the recorded range are reset
RollbackRead(sn, rec, id) ==
    [sn EXCEPT !.aset = [i \in 1 .. sn.size |->
        IF i \in Range(rec.offset, rec.size) THEN ResetRead(sn.aset[i], id)
        ELSE sn.aset[i]]]

\* WRITE record, aborted: the recorded range is copied from the RO to the R/W
\* copy and the access sets of the range are reset
RollbackWrite(sn, rec, id) ==
    [sn EXCEPT !.rw = [i \in 1 .. sn.size |->
                          IF i \in Range(rec.offset, rec.size) THEN sn.ro[i]
                          ELSE sn.rw[i]],
               !.aset = [i \in 1 .. sn.size |->
                          IF i \in Range(rec.offset, rec.size)
                          THEN ResetWrite(sn.aset[i], id)
                          ELSE sn.aset[i]]]

\* Mutant: the FREE record of an aborted TX marks the segment freed as well
ApplyRecord_FreeOnAbort(sn, rec, id, c) ==
    CASE rec.type = "READ"  -> IF c THEN sn ELSE RollbackRead(sn, rec, id)
      [] rec.type = "WRITE" -> IF c THEN [sn EXCEPT !.written = TRUE]
                               ELSE RollbackWrite(sn, rec, id)
      [] rec.type = "ALLOC" -> IF c THEN sn ELSE [sn EXCEPT !.freed = TRUE]
      [] rec.type = "FREE"  -> [sn EXCEPT !.freed = TRUE]

\* Mutant: the ALLOC record of an aborted TX has no effect
ApplyRecord_KeepOnAbort(sn, rec, id, c) ==
    CASE rec.type = "READ"  -> IF c THEN sn ELSE RollbackRead(sn, rec, id)
      [] rec.type = "WRITE" -> IF c THEN [sn EXCEPT !.written = TRUE]
                               ELSE RollbackWrite(sn, rec, id)
      [] rec.type = "ALLOC" -> sn
      [] rec.type = "FREE"  -> IF c THEN [sn EXCEPT !.freed = TRUE] ELSE sn

\* Mutant: the WRITE record of a committed TX is rolled back as well
ApplyRecord_ResetOnCommit(sn, rec, id, c) ==
    CASE rec.type = "READ"  -> IF c THEN sn ELSE RollbackRead(sn, rec, id)
      [] rec.type = "WRITE" -> RollbackWrite(sn, rec, id)
      [] rec.type = "ALLOC" -> IF c THEN sn ELSE [sn EXCEPT !.freed = TRUE]
      [] rec.type = "FREE"  -> IF c THEN [sn EXCEPT !.freed = TRUE] ELSE sn

\* One record of the history, by its type and by whether the TX committed
ApplyRecord(sn, rec, id, c) ==
    CASE rec.type = "READ"  -> IF c THEN sn ELSE RollbackRead(sn, rec, id)
      [] rec.type = "WRITE" -> IF c THEN [sn EXCEPT !.written = TRUE]
                               ELSE RollbackWrite(sn, rec, id)
      [] rec.type = "ALLOC" -> IF c THEN sn ELSE [sn EXCEPT !.freed = TRUE]
      [] rec.type = "FREE"  -> IF c THEN [sn EXCEPT !.freed = TRUE] ELSE sn

\* The whole walk of a committed TX: it only stores to the written? and freed
\* flags, which nothing reads before the end of the epoch
RECURSIVE CommitWalk(_, _, _)
CommitWalk(segs, log, id) ==
    IF log = <<>> THEN segs
    ELSE LET rec == Head(log) IN
         CommitWalk([segs EXCEPT ![rec.seg_id] = ApplyRecord(@, rec, id, TRUE)],
                    Tail(log), id)

\* ------------------------------------------------------------------------
\* tm_read, tm_write, tm_free, tm_end
\* ------------------------------------------------------------------------

\* A live segment and a word range inside it
ValidRange(seg, first, n) ==
    /\ allocs[seg] # NULL
    /\ n >= 1
    /\ first >= 1
    /\ first + n - 1 <= allocs[seg].size

\* The transaction may still record an operation
MayRecord(t) == tx[t] < MAX_RW_TX => Len(history[tx[t]]) < MaxOps

\* tm_read: word written by another TX
ReadConflict(bitmap, pattern) ==
    Gt(bitmap, WRITTEN) /\ BitAnd(bitmap, pattern) = {}

\* Mutant: tm_write without the test for a word read by another TX
WriteConflict_NoReadTest(bitmap, pattern) ==
    Gt(bitmap, WRITTEN) /\ BitAnd(bitmap, pattern) = {}

\* tm_write: word written by another TX, or word read by another TX
WriteConflict(bitmap, pattern) ==
    \/ Gt(bitmap, WRITTEN) /\ BitAnd(bitmap, pattern) = {}
    \/ Lt(bitmap, WRITTEN) /\ Gt(BitAnd(bitmap, BitNot(pattern)), {})

\* The least element of a non-empty set of word indices
FirstOf(S) == CHOOSE i \in S : \A j \in S : i <= j

\* The per-word locks aset_locks[a .. b] of a segment
WordLocks(seg, a, b) == {<<seg, j>> : j \in a .. b}

\* Mutant: the lock of the conflicting word itself is not released
ReleasedAtConflict_Short(seg, first, i) == WordLocks(seg, first, i - 1)

\* Conflict at word i: for (j = word_idx; j <= i; j++) release(aset_locks[j])
ReleasedAtConflict(seg, first, i) == WordLocks(seg, first, i)

\* The locks a tm_read / tm_write holds when it calls batcher_leave on a
\* conflict at word i: those acquired up to i less those released
HeldAtConflict(seg, first, i) ==
    WordLocks(seg, first, i) \ ReleasedAtConflict(seg, first, i)

\* Mutant: an RO TX reads the read/write copy
ReadRO_FromRW(sn, first, n) == [i \in 1 .. n |-> sn.rw[first + i - 1]]

\* tm_read of an RO TX: the bytes of the read-only copy
ReadRO(sn, first, n) == [i \in 1 .. n |-> sn.ro[first + i - 1]]

\* tm_read of a R/W TX: the bytes of the read/write copy
ReadRW(sn, first, n) == [i \in 1 .. n |-> sn.rw[first + i - 1]]

\* Mutant: tm_read stores the caller's bit over the access set
MarkRead_Assign(sn, first, n, pattern) ==
    [sn EXCEPT !.aset = [i \in 1 .. sn.size |->
        IF i \in Range(first, n) THEN pattern ELSE sn.aset[i]]]

\* tm_read: aset[i] |= pattern over the range
MarkRead(sn, first, n, pattern) ==
    [sn EXCEPT !.aset = [i \in 1 .. sn.size |->
        IF i \in Range(first, n) THEN BitOr(sn.aset[i], pattern)
        ELSE sn.aset[i]]]

\* The k-th write of TX id in the current epoch stores these bytes
SourceWord(id) ==
    <<counter, id,
      1 + Cardinality({k \in 1 .. Len(history[id]) : history[id][k].type = "WRITE"})>>

\* tm_write: memcpy into the read/write copy, aset[i] |= WRITTEN | pattern
StoreWrite(sn, first, n, pattern, word) ==
    [sn EXCEPT !.rw = [i \in 1 .. sn.size |->
                          IF i \in Range(first, n) THEN word ELSE sn.rw[i]],
               !.aset = [i \in 1 .. sn.size |->
                          IF i \in Range(first, n)
                          THEN BitOr(sn.aset[i], BitOr(WRITTEN, pattern))
                          ELSE sn.aset[i]]]

\* batcher_leave(shared, tx, false) is entered: the cursor is set to the head
\* of the history of the R/W TX
EnterLeave(t) ==
    /\ pc' = [pc EXCEPT ![t] = "leave"]
    /\ committed' = [committed EXCEPT ![t] = FALSE]
    /\ r' = [r EXCEPT ![t] = history[tx[t]]]
    /\ outcome' = [outcome EXCEPT ![tx[t]] = "abort"]

\* An operation of TX tx[t] calls batcher_leave(shared, tx, false) and will
\* return ret
Leave(t, ret) ==
    /\ EnterLeave(t)
    /\ res' = [res EXCEPT ![t] = ret]

TmReadRO(t, seg, first, n) ==
    /\ pc[t] = "run"
    /\ tx[t] >= MAX_RW_TX
    /\ ValidRange(seg, first, n)
    /\ ev' = Ev("read", t, tx[t], TRUE, seg, first, n,
                ReadRO(allocs[seg], first, n), <<>>)
    /\ UNCHANGED <<batcherVars, regionVars, threadVars, snap, outcome,
                   aborted, started>>

TmReadRW(t, seg, first, n) ==
    LET sn == allocs[seg]
        pattern == Pattern(tx[t])
    IN
    /\ pc[t] = "run"
    /\ tx[t] < MAX_RW_TX
    /\ ValidRange(seg, first, n)
    /\ IF \E i \in Range(first, n) : ReadConflict(sn.aset[i], pattern)
       THEN /\ Leave(t, <<"false">>)
            /\ ev' = EvHeld(Ev("read", t, tx[t], FALSE, seg, first, n, <<>>, <<>>),
                            HeldAtConflict(seg, first,
                                FirstOf({i \in Range(first, n) :
                                    ReadConflict(sn.aset[i], pattern)})))
            /\ UNCHANGED <<allocs, history>>
       ELSE /\ MayRecord(t)
            /\ allocs' = [allocs EXCEPT ![seg] = MarkRead(sn, first, n, pattern)]
            /\ history' = [history EXCEPT ![tx[t]] =
                              <<rw("READ", seg, first, n)>> \o @]
            /\ ev' = Ev("read", t, tx[t], TRUE, seg, first, n,
                        ReadRW(sn, first, n), <<>>)
            /\ UNCHANGED <<pc, committed, r, res, outcome>>
    /\ UNCHANGED <<batcherVars, top, segment_id, tx, epoch0, snap, aborted,
                   started>>

TmWrite(t, seg, first, n) ==
    LET sn == allocs[seg]
        pattern == Pattern(tx[t])
        word == SourceWord(tx[t])
    IN
    /\ pc[t] = "run"
    /\ tx[t] < MAX_RW_TX
    /\ ValidRange(seg, first, n)
    /\ IF \E i \in Range(first, n) : WriteConflict(sn.aset[i], pattern)
       THEN /\ Leave(t, <<"false">>)
            /\ ev' = EvHeld(Ev("write", t, tx[t], FALSE, seg, first, n, <<>>, <<>>),
                            HeldAtConflict(seg, first,
                                FirstOf({i \in Range(first, n) :
                                    WriteConflict(sn.aset[i], pattern)})))
            /\ UNCHANGED <<allocs, history>>
       ELSE /\ MayRecord(t)
            /\ allocs' = [allocs EXCEPT ![seg] =
                             StoreWrite(sn, first, n, pattern, word)]
            /\ history' = [history EXCEPT ![tx[t]] =
                              <<rw("WRITE", seg, first, n)>> \o @]
            /\ ev' = Ev("write", t, tx[t], TRUE, seg, first, n,
                        [i \in 1 .. n |-> word], <<>>)
            /\ UNCHANGED <<pc, committed, r, res, outcome>>
    /\ UNCHANGED <<batcherVars, top, segment_id, tx, epoch0, snap, aborted,
                   started>>

TmFree(t, seg) ==
    /\ pc[t] = "run"
    /\ tx[t] < MAX_RW_TX
    /\ allocs[seg] # NULL
    /\ IF seg = FIRST_SEG
       THEN /\ Leave(t, <<"false", "FIRST_SEG">>)
            /\ UNCHANGED history
       ELSE /\ MayRecord(t)
            /\ history' = [history EXCEPT ![tx[t]] = <<af("FREE", seg)>> \o @]
            /\ UNCHANGED <<pc, committed, r, res, outcome>>
    /\ ev' = Ev("free", t, tx[t], seg # FIRST_SEG, seg, 0, 0, <<>>, <<>>)
    /\ UNCHANGED <<batcherVars, allocs, top, segment_id, tx, epoch0, snap,
                   aborted, started>>

\* tm_end: batcher_leave(shared, tx, true) is entered and walks the history of
\* a R/W TX (an RO TX has no history)
TmEnd(t) ==
    /\ pc[t] = "run"
    /\ pc' = [pc EXCEPT ![t] = "leave"]
    /\ committed' = [committed EXCEPT ![t] = TRUE]
    /\ allocs' = IF tx[t] < MAX_RW_TX
                 THEN CommitWalk(allocs, history[tx[t]], tx[t])
                 ELSE allocs
    /\ outcome' = IF tx[t] < MAX_RW_TX
                  THEN [outcome EXCEPT ![tx[t]] = "commit"]
                  ELSE outcome
    /\ res' = [res EXCEPT ![t] = <<"true">>]
    /\ ev' = Ev("end", t, tx[t], TRUE, 0, 0, 0, <<>>, <<>>)
    /\ UNCHANGED <<batcherVars, top, segment_id, history, tx, epoch0, r, snap,
                   aborted, started>>

\* ------------------------------------------------------------------------
\* batcher_leave of an aborted TX: the rollback, record by record
\* ------------------------------------------------------------------------

\* The loop body of batcher_leave: the record under the cursor is rolled back
\* (under the per-word locks of its range) and cleared
LeaveRecord(t) ==
    LET rec == Head(r[t]) IN
    /\ pc[t] = "leave"
    /\ r[t] # <<>>
    /\ allocs' = [allocs EXCEPT ![rec.seg_id] =
                     ApplyRecord(@, rec, tx[t], committed[t])]
    /\ r' = [r EXCEPT ![t] = Tail(@)]
    /\ ev' = Ev("record", t, tx[t], committed[t], rec.seg_id, rec.offset,
                rec.size, <<>>, <<rec>>)
    /\ UNCHANGED <<batcherVars, top, segment_id, history, pc, tx, epoch0,
                   committed, res, snap, outcome, aborted, started>>

\* ------------------------------------------------------------------------
\* tm_alloc and alloc_segment; the host allocator failing
\* ------------------------------------------------------------------------

\* alloc_segment: too many segments
SegOverflow(_top) == _top >= MAX_SEG

\* alloc_segment returns NOMEM after seg_id = segment_id[top++]: top stays
\* incremented
TopAfterNoMem(_top) == _top + 1

\* tm_alloc.  host is what the host allocator does: "ok", "segment" (a
\* posix_memalign of alloc_segment fails) or "record" (the posix_memalign of
\* af fails).  alloc_segment takes and releases top_lock before it returns.
TmAlloc(t, words, host) ==
    LET seg == segment_id[top] IN
    /\ pc[t] = "run"
    /\ tx[t] < MAX_RW_TX
    /\ IF SegOverflow(top)
       THEN /\ Leave(t, <<"abort_alloc", "SEG_OVERFLOW">>)
            /\ ev' = Ev("alloc", t, tx[t], FALSE, 0, 0, words,
                        <<"abort_alloc", "SEG_OVERFLOW", host>>, <<>>)
            /\ UNCHANGED <<allocs, top, segment_id, history, snap>>
       ELSE IF host = "segment"
       THEN /\ top' = TopAfterNoMem(top)
            /\ Leave(t, <<"nomem_alloc", "NOMEM">>)
            /\ ev' = Ev("alloc", t, tx[t], FALSE, seg, 0, words,
                        <<"nomem_alloc", "NOMEM", host>>, <<>>)
            /\ UNCHANGED <<allocs, segment_id, history, snap>>
       ELSE /\ top' = top + 1
            /\ allocs' = [allocs EXCEPT ![seg] = NewSegment(seg, words)]
            /\ snap' = [snap EXCEPT ![seg] = allocs'[seg].ro]
            /\ UNCHANGED segment_id
            /\ IF host = "record"
               THEN /\ Leave(t, <<"abort_alloc", "NULL">>)
                    /\ ev' = Ev("alloc", t, tx[t], FALSE, seg, 0, words,
                                <<"abort_alloc", "NULL", host>>, <<>>)
                    /\ UNCHANGED history
               ELSE /\ MayRecord(t)
                    /\ history' = [history EXCEPT ![tx[t]] =
                                      <<af("ALLOC", seg)>> \o @]
                    /\ ev' = Ev("alloc", t, tx[t], TRUE, seg, 0, words,
                                <<"success_alloc", "", host>>, <<>>)
                    /\ UNCHANGED <<pc, committed, r, res, outcome>>
    /\ UNCHANGED <<batcherVars, tx, epoch0, aborted, started>>

\* tm_read of a R/W TX whose record cannot be allocated: the bytes are
\* copied, the access sets are updated and the locks released, then rw
\* returns NULL
TmReadNoMem(t, seg, first, n) ==
    LET sn == allocs[seg]
        pattern == Pattern(tx[t])
    IN
    /\ pc[t] = "run"
    /\ tx[t] < MAX_RW_TX
    /\ ValidRange(seg, first, n)
    /\ ~\E i \in Range(first, n) : ReadConflict(sn.aset[i], pattern)
    /\ allocs' = [allocs EXCEPT ![seg] = MarkRead(sn, first, n, pattern)]
    /\ Leave(t, <<"false">>)
    /\ ev' = EvHeld(Ev("read", t, tx[t], FALSE, seg, first, n,
                       ReadRW(sn, first, n), <<>>),
                    WordLocks(seg, first, first + n - 1)
                        \ WordLocks(seg, first, first + n - 1))
    /\ UNCHANGED <<batcherVars, top, segment_id, history, tx, epoch0, snap,
                   aborted, started>>

\* tm_write whose record cannot be allocated
TmWriteNoMem(t, seg, first, n) ==
    LET sn == allocs[seg]
        pattern == Pattern(tx[t])
        word == SourceWord(tx[t])
    IN
    /\ pc[t] = "run"
    /\ tx[t] < MAX_RW_TX
    /\ ValidRange(seg, first, n)
    /\ ~\E i \in Range(first, n) : WriteConflict(sn.aset[i], pattern)
    /\ allocs' = [allocs EXCEPT ![seg] = StoreWrite(sn, first, n, pattern, word)]
    /\ Leave(t, <<"false">>)
    /\ ev' = EvHeld(Ev("write", t, tx[t], FALSE, seg, first, n,
                       [i \in 1 .. n |-> word], <<>>),
                    WordLocks(seg, first, first + n - 1)
                        \ WordLocks(seg, first, first + n - 1))
    /\ UNCHANGED <<batcherVars, top, segment_id, history, tx, epoch0, snap,
                   aborted, started>>

\* tm_free of a segment other than the first whose record cannot be
\* allocated
TmFreeNoMem(t, seg) ==
    /\ pc[t] = "run"
    /\ tx[t] < MAX_RW_TX
    /\ allocs[seg] # NULL
    /\ seg # FIRST_SEG
    /\ Leave(t, <<"false">>)
    /\ ev' = Ev("free", t, tx[t], FALSE, seg, 0, 0, <<>>, <<>>)
    /\ UNCHANGED <<batcherVars, regionVars, tx, epoch0, snap, aborted,
                   started>>

\* ------------------------------------------------------------------------
\* batcher_leave: leaving the batch, and the end of the epoch
\* ------------------------------------------------------------------------

\* Mutant: the end-of-epoch loop leaves the access sets of a live segment
\* as they are
SwapSegment_KeepAset(sn) ==
    [sn EXCEPT !.written = FALSE,
               !.ro = IF sn.written THEN sn.rw ELSE sn.ro]

\* A segment that stays: a written segment gets its R/W copy as RO copy, and
\* the access sets are reset whether it was written or not
SwapSegment(sn) ==
    [sn EXCEPT !.written = FALSE,
               !.ro = IF sn.written THEN sn.rw ELSE sn.ro,
               !.aset = [i \in 1 .. sn.size |-> {}]]

\* The loop over the segment table from slot i on; st holds allocs, top and
\* segment_id
RECURSIVE EndOfEpoch(_, _)
EndOfEpoch(i, st) ==
    IF i >= MAX_SEG THEN st
    ELSE LET sn == st.allocs[i] IN
         IF sn = NULL THEN EndOfEpoch(i + 1, st)
         ELSE IF sn.freed
              THEN EndOfEpoch(i + 1,
                       [allocs |-> [st.allocs EXCEPT ![i] = NULL],
                        top |-> st.top - 1,
                        segment_id |-> [st.segment_id EXCEPT ![st.top - 1] = i]])
              ELSE EndOfEpoch(i + 1,
                       [st EXCEPT !.allocs = [st.allocs EXCEPT ![i] = SwapSegment(sn)]])

\* The transactions of ids whose bytes some copy of a live segment holds
StillThere(ids, segs) ==
    {id \in ids : \E i \in SegIds : \E w \in 1 .. segs[i].size :
        \/ <<segs[i].ro[w][1], segs[i].ro[w][2]>> = id
        \/ <<segs[i].rw[w][1], segs[i].rw[w][2]>> = id}

\* Mutant: the epoch is ended by the last but one TX to leave as well
Drained_Early(left) == left <= 1

\* The last TX to leave the batch: remaining == 0 after remaining--
Drained(left) == left = 0

\* The critical section of batcher_leave: remaining--, and the last thread
\* ends the epoch
LeaveBatch(t) ==
    LET st == EndOfEpoch(FIRST_SEG,
                  [allocs |-> allocs, top |-> top, segment_id |-> segment_id])
        log == IF tx[t] < MAX_RW_TX THEN history[tx[t]] ELSE <<>>
    IN
    /\ pc[t] = "leave"
    /\ r[t] = <<>>
    /\ pc' = [pc EXCEPT ![t] = "idle"]
    /\ tx' = [tx EXCEPT ![t] = 0]
    /\ epoch0' = [epoch0 EXCEPT ![t] = 0]
    /\ committed' = [committed EXCEPT ![t] = TRUE]
    /\ res' = [res EXCEPT ![t] = <<>>]
    /\ ev' = Ev("left", t, tx[t], committed[t], 0, 0, 0, res[t], log)
    /\ IF Drained(remaining - 1)
       THEN /\ allocs' = st.allocs
            /\ top' = st.top
            /\ segment_id' = st.segment_id
            /\ history' = [i \in RwTxIds |-> <<>>]
            /\ counter' = counter + 1
            /\ rw_tx' = 0
            /\ ro_tx' = MAX_RW_TX
            /\ remaining' = blocked
            /\ blocked' = 0
            /\ snap' = [i \in SegIds |-> st.allocs[i].ro]
            /\ outcome' = [i \in RwTxIds |-> "none"]
            /\ aborted' = StillThere(aborted \cup {<<counter, i>> : i \in
                               {j \in RwTxIds : outcome[j] = "abort"}}, st.allocs)
       ELSE /\ remaining' = remaining - 1
            /\ UNCHANGED <<counter, rw_tx, ro_tx, blocked, regionVars, snap,
                           outcome, aborted>>
    /\ UNCHANGED <<r, started>>

\* ------------------------------------------------------------------------
\* The system: user threads driving transactions on the first segment
\* ------------------------------------------------------------------------

Next ==
    /\ \E t \in Threads :
           \/ \E is_ro \in BOOLEAN : TmBegin(t, is_ro)
           \/ Wake(t)
           \/ \E seg \in SegIds, first \in 1 .. NumWords, n \in 1 .. NumWords :
                 \/ TmReadRO(t, seg, first, n)
                 \/ TmReadRW(t, seg, first, n)
                 \/ TmWrite(t, seg, first, n)
           \/ \E seg \in SegIds : TmFree(t, seg)
           \/ TmEnd(t)
           \/ LeaveRecord(t)
           \/ LeaveBatch(t)
    /\ UNCHANGED lockVars

Spec == Init /\ [][Next]_vars

\* Transactions that only begin and end, driven by enough threads to exhaust
\* the R/W TX ids of an epoch
NBatcherThreads == MAX_RW_TX + 2

InitBatcher == InitRegion /\ InitThreads(NBatcherThreads)

NextBatcher ==
    /\ \E t \in Threads :
           \/ \E is_ro \in BOOLEAN : TmBegin(t, is_ro)
           \/ Wake(t)
           \/ TmEnd(t)
           \/ LeaveBatch(t)
    /\ UNCHANGED lockVars

SpecBatcher == InitBatcher /\ [][NextBatcher]_vars

\* The batcher with fair threads: a woken thread returns from
\* pthread_cond_wait, and every admitted transaction ends and leaves
SpecBatcherFair ==
    /\ SpecBatcher
    /\ \A t \in 1 .. NBatcherThreads :
           /\ WF_vars(Wake(t) /\ UNCHANGED lockVars)
           /\ WF_vars(TmEnd(t) /\ UNCHANGED lockVars)
           /\ WF_vars(LeaveBatch(t) /\ UNCHANGED lockVars)

\* The system with segments: transactions that also allocate and free
\* segments of SegWords words, and a host allocator that may fail.  With
\* NSegThreads threads the transactions of an epoch run one at a time.
NSegThreads == 2

InitSeg == CreateRegion(SegWords) /\ InitThreads(NSegThreads)

NextSeg ==
    /\ \E t \in Threads :
           \/ \E is_ro \in BOOLEAN : TmBegin(t, is_ro)
           \/ Wake(t)
           \/ \E seg \in SegIds, first \in 1 .. SegWords, n \in 1 .. SegWords :
                 \/ TmReadRO(t, seg, first, n)
                 \/ TmReadRW(t, seg, first, n)
                 \/ TmWrite(t, seg, first, n)
                 \/ TmReadNoMem(t, seg, first, n)
                 \/ TmWriteNoMem(t, seg, first, n)
           \/ \E host \in {"ok", "segment", "record"} : TmAlloc(t, SegWords, host)
           \/ \E seg \in SegIds : TmFree(t, seg) \/ TmFreeNoMem(t, seg)
           \/ TmEnd(t)
           \/ LeaveRecord(t)
           \/ LeaveBatch(t)
    /\ UNCHANGED lockVars

SpecSeg == InitSeg /\ [][NextSeg]_vars

\* The system with segments and R/W transactions that run side by side in
\* an epoch: they write, allocate and free, and the host allocator may fail
\* in alloc_segment
InitSegPar == CreateRegion(SegWords) /\ InitThreads(NThreads)

NextSegPar ==
    /\ \E t \in Threads :
           \/ TmBegin(t, FALSE)
           \/ Wake(t)
           \/ \E seg \in SegIds, first \in 1 .. SegWords, n \in 1 .. SegWords :
                 TmWrite(t, seg, first, n)
           \/ \E host \in {"ok", "segment"} : TmAlloc(t, SegWords, host)
           \/ \E seg \in SegIds : TmFree(t, seg)
           \/ TmEnd(t)
           \/ LeaveRecord(t)
           \/ LeaveBatch(t)
    /\ UNCHANGED lockVars

SpecSegPar == InitSegPar /\ [][NextSegPar]_vars

\* ------------------------------------------------------------------------
\* tm_read, tm_write and the rollback of a record, one per-word lock at a
\* time
\* ------------------------------------------------------------------------

\* The words whose locks tm_read and tm_write take, in the order of
\* for (i = word_idx; i < word_idx + num_words; i++) acquire(aset_locks[i])
OpLockOrder(first, n) == [k \in 1 .. n |-> first + k - 1]

\* Mutant: batcher_leave takes the locks of a record from the last word down
RollbackLockOrder_Descending(first, n) == [k \in 1 .. n |-> first + n - k]

\* The words whose locks batcher_leave takes for a READ or WRITE record, in
\* the order of for (word_idx = start_idx; ...; word_idx++) acquire(...)
RollbackLockOrder(first, n) == [k \in 1 .. n |-> first + k - 1]

\* The per-word locks a thread holds
LocksOf(t) ==
    {<<i, w>> \in SegIds \X (1 .. NumWords) :
        w \in DOMAIN aset_locks[i] /\ aset_locks[i][w] = t}

\* Operations one transaction records when the locks are taken one at a
\* time
MaxLockOps == 1

\* A R/W TX calls tm_read or tm_write
OpStart(t, kind, seg, first, n) ==
    /\ pc[t] = "run"
    /\ tx[t] < MAX_RW_TX
    /\ ValidRange(seg, first, n)
    /\ Len(history[tx[t]]) < MaxLockOps
    /\ pc' = [pc EXCEPT ![t] = "op"]
    /\ locking' = [locking EXCEPT ![t] =
                      [kind |-> kind, seg |-> seg, first |-> first, n |-> n,
                       i |-> 1, got |-> 0, phase |-> "acquire",
                       abort |-> FALSE]]
    /\ UNCHANGED <<batcherVars, regionVars, tx, epoch0, committed, r, res,
                   aset_locks, ev, snap, outcome, aborted, started>>

\* One turn of the loop of tm_read / tm_write: acquire(aset_locks[i]) finds
\* the flag clear, and the access set of the word is tested.  After the last
\* word the bytes are copied and the access sets of the range updated.
OpAcquire(t) ==
    LET o == locking[t]
        w == OpLockOrder(o.first, o.n)[o.i]
        sn == allocs[o.seg]
        pattern == Pattern(tx[t])
        conflict == IF o.kind = "read" THEN ReadConflict(sn.aset[w], pattern)
                    ELSE WriteConflict(sn.aset[w], pattern)
    IN
    /\ pc[t] = "op"
    /\ o.phase = "acquire"
    /\ aset_locks[o.seg][w] = 0
    /\ aset_locks' = [aset_locks EXCEPT ![o.seg][w] = t]
    /\ IF conflict
       THEN /\ locking' = [locking EXCEPT ![t] =
                   [o EXCEPT !.phase = "release", !.abort = TRUE,
                             !.got = Cardinality(
                                 ReleasedAtConflict(o.seg, o.first, w)),
                             !.i = 1]]
            /\ UNCHANGED allocs
       ELSE IF o.i = o.n
       THEN /\ locking' = [locking EXCEPT ![t] =
                   [o EXCEPT !.phase = "release", !.got = o.n, !.i = 1]]
            /\ allocs' = [allocs EXCEPT ![o.seg] =
                   IF o.kind = "read" THEN MarkRead(sn, o.first, o.n, pattern)
                   ELSE StoreWrite(sn, o.first, o.n, pattern,
                                   SourceWord(tx[t]))]
       ELSE /\ locking' = [locking EXCEPT ![t] = [o EXCEPT !.i = o.i + 1]]
            /\ UNCHANGED allocs
    /\ UNCHANGED <<batcherVars, top, segment_id, history, threadVars, ev,
                   snap, outcome, aborted, started>>

\* One turn of a release loop of tm_read / tm_write.  After the last
\* release the call records the operation and returns true, or calls
\* batcher_leave(shared, tx, false)
OpRelease(t) ==
    LET o == locking[t]
        w == OpLockOrder(o.first, o.n)[o.i]
        sn == allocs[o.seg]
    IN
    /\ pc[t] = "op"
    /\ o.phase = "release"
    /\ aset_locks' = [aset_locks EXCEPT ![o.seg][w] = 0]
    /\ IF o.i < o.got
       THEN /\ locking' = [locking EXCEPT ![t] = [o EXCEPT !.i = o.i + 1]]
            /\ UNCHANGED <<history, pc, committed, r, res, ev, outcome>>
       ELSE /\ locking' = [locking EXCEPT ![t] = NoOp]
            /\ IF o.abort
               THEN /\ Leave(t, <<"false">>)
                    /\ ev' = EvHeld(Ev(o.kind, t, tx[t], FALSE, o.seg,
                                       o.first, o.n, <<>>, <<>>),
                                    LocksOf(t) \ {<<o.seg, w>>})
                    /\ UNCHANGED history
               ELSE /\ pc' = [pc EXCEPT ![t] = "run"]
                    /\ history' = [history EXCEPT ![tx[t]] =
                           <<rw(IF o.kind = "read" THEN "READ" ELSE "WRITE",
                                o.seg, o.first, o.n)>> \o @]
                    /\ ev' = Ev(o.kind, t, tx[t], TRUE, o.seg, o.first, o.n,
                                ReadRW(sn, o.first, o.n), <<>>)
                    /\ UNCHANGED <<committed, r, res, outcome>>
    /\ UNCHANGED <<batcherVars, allocs, top, segment_id, tx, epoch0, snap,
                   aborted, started>>

\* batcher_leave of an aborted TX reaches a READ or WRITE record
RollStart(t) ==
    LET rec == Head(r[t]) IN
    /\ pc[t] = "leave"
    /\ r[t] # <<>>
    /\ locking[t] = NoOp
    /\ rec.type \in {"READ", "WRITE"}
    /\ locking' = [locking EXCEPT ![t] =
                      [kind |-> "rollback", seg |-> rec.seg_id,
                       first |-> rec.offset, n |-> rec.size, i |-> 1,
                       got |-> 0, phase |-> "acquire", abort |-> FALSE]]
    /\ UNCHANGED <<batcherVars, regionVars, threadVars, aset_locks, ev, snap,
                   outcome, aborted, started>>

\* One turn of the acquire loop of the rollback of a record.  After the last
\* word the record is rolled back
RollAcquire(t) ==
    LET o == locking[t]
        w == RollbackLockOrder(o.first, o.n)[o.i]
    IN
    /\ pc[t] = "leave"
    /\ o.phase = "acquire"
    /\ aset_locks[o.seg][w] = 0
    /\ aset_locks' = [aset_locks EXCEPT ![o.seg][w] = t]
    /\ IF o.i = o.n
       THEN /\ locking' = [locking EXCEPT ![t] =
                   [o EXCEPT !.phase = "release", !.got = o.n, !.i = 1]]
            /\ allocs' = [allocs EXCEPT ![o.seg] =
                   ApplyRecord(@, Head(r[t]), tx[t], committed[t])]
       ELSE /\ locking' = [locking EXCEPT ![t] = [o EXCEPT !.i = o.i + 1]]
            /\ UNCHANGED allocs
    /\ UNCHANGED <<batcherVars, top, segment_id, history, threadVars, ev,
                   snap, outcome, aborted, started>>

\* One turn of the release loop of the rollback of a record.  After the
\* last release the record is cleared
RollRelease(t) ==
    LET o == locking[t]
        w == RollbackLockOrder(o.first, o.n)[o.i]
        rec == Head(r[t])
    IN
    /\ pc[t] = "leave"
    /\ o.phase = "release"
    /\ aset_locks' = [aset_locks EXCEPT ![o.seg][w] = 0]
    /\ IF o.i < o.got
       THEN /\ locking' = [locking EXCEPT ![t] = [o EXCEPT !.i = o.i + 1]]
            /\ UNCHANGED <<r, ev>>
       ELSE /\ locking' = [locking EXCEPT ![t] = NoOp]
            /\ r' = [r EXCEPT ![t] = Tail(@)]
            /\ ev' = Ev("record", t, tx[t], committed[t], rec.seg_id,
                        rec.offset, rec.size, <<>>, <<rec>>)
    /\ UNCHANGED <<batcherVars, regionVars, pc, tx, epoch0, committed, res,
                   snap, outcome, aborted, started>>

\* R/W transactions on the first segment whose reads, writes and rollbacks
\* take the per-word locks one at a time; a transaction aborts on a conflict
\* or by freeing the first segment
NextLocks ==
    \E t \in Threads :
        \/ (TmBegin(t, FALSE) \/ Wake(t) \/ TmFree(t, FIRST_SEG) \/ TmEnd(t)
               \/ LeaveBatch(t))
             /\ UNCHANGED lockVars
        \/ \E kind \in {"read", "write"}, first \in 1 .. NumWords,
              n \in 1 .. NumWords :
              OpStart(t, kind, FIRST_SEG, first, n)
        \/ OpAcquire(t)
        \/ OpRelease(t)
        \/ RollStart(t)
        \/ RollAcquire(t)
        \/ RollRelease(t)

SpecLocks == Init /\ [][NextLocks]_vars

\* ------------------------------------------------------------------------
\* The batcher of template/batcher.c: no TX ids, and batcher_enter waits
\* while (remaining > 0).  epoch0 records the epoch in which a thread
\* entered, which this batcher does not read.
\* ------------------------------------------------------------------------

\* Mutant: the wait of the DV-STM batcher, while (_counter == counter)
Template_Released_Epoch(_counter) == _counter # counter

\* The wait is over: while (batcher->remaining > 0) is false
Template_Released(_counter) == ~(remaining > 0)

\* batcher_enter up to the wait: the first thread of an epoch runs at once,
\* any other is counted in blocked and waits
TemplateEnter(t) ==
    /\ pc[t] = "idle"
    /\ EntryEpoch <= MaxEpoch
    /\ epoch0' = [epoch0 EXCEPT ![t] = counter]
    /\ IF remaining = 0
       THEN /\ remaining' = 1
            /\ pc' = [pc EXCEPT ![t] = "run"]
            /\ ev' = Ev("begin", t, 0, TRUE, 0, 0, 0, <<>>, <<>>)
            /\ UNCHANGED blocked
       ELSE /\ blocked' = blocked + 1
            /\ pc' = [pc EXCEPT ![t] = "wait"]
            /\ ev' = Ev("wait", t, 0, TRUE, 0, 0, 0, <<>>, <<>>)
            /\ UNCHANGED remaining
    /\ UNCHANGED <<counter, rw_tx, ro_tx, regionVars, tx, committed, r, res,
                   snap, outcome, aborted, started>>

\* pthread_cond_wait returns, after the broadcast or spuriously, and the
\* loop tests its condition: the thread returns from batcher_enter or waits
\* again
TemplateWake(t) ==
    /\ pc[t] = "wait"
    /\ pc' = [pc EXCEPT ![t] =
                 IF Template_Released(epoch0[t]) THEN "run" ELSE "wait"]
    /\ ev' = Ev("wake", t, 0, Template_Released(epoch0[t]), 0, 0, 0, <<>>, <<>>)
    /\ UNCHANGED <<batcherVars, regionVars, tx, epoch0, committed, r, res,
                   snap, outcome, aborted, started>>

\* batcher_leave
TemplateLeave(t) ==
    /\ pc[t] = "run"
    /\ pc' = [pc EXCEPT ![t] = "idle"]
    /\ epoch0' = [epoch0 EXCEPT ![t] = 0]
    /\ ev' = Ev("left", t, 0, TRUE, 0, 0, 0, <<>>, <<>>)
    /\ IF remaining - 1 = 0
       THEN /\ counter' = counter + 1
            /\ remaining' = blocked
            /\ blocked' = 0
       ELSE /\ remaining' = remaining - 1
            /\ UNCHANGED <<counter, blocked>>
    /\ UNCHANGED <<rw_tx, ro_tx, regionVars, tx, committed, r, res, snap,
                   outcome, aborted, started>>

NextTemplate ==
    /\ \E t \in Threads :
           \/ TemplateEnter(t)
           \/ TemplateWake(t)
           \/ TemplateLeave(t)
    /\ UNCHANGED lockVars

SpecTemplate == InitBatcher /\ [][NextTemplate]_vars

\* ------------------------------------------------------------------------
\* What a transaction wrote, read off its history
\* ------------------------------------------------------------------------

\* The positions (head first) of the WRITE records of log that cover word w
\* of segment seg
WritesTo(log, seg, w) ==
    {k \in 1 .. Len(log) :
        /\ log[k].type = "WRITE"
        /\ log[k].seg_id = seg
        /\ w \in Range(log[k].offset, log[k].size)}

Wrote(log, seg, w) == WritesTo(log, seg, w) # {}

\* The bytes the last of these writes stored
LastValue(log, seg, w, epoch, id) ==
    LET k == CHOOSE j \in WritesTo(log, seg, w) :
                 \A i \in WritesTo(log, seg, w) : j <= i
    IN <<epoch, id, Cardinality({j \in k .. Len(log) : log[j].type = "WRITE"})>>

\* The words of the range of the last step
EvWords == Range(ev.first, ev.n)

\* The byte the last step read from word w
EvVal(w) == ev.vals[w - ev.first + 1]

\* v was written by a transaction that aborted
WrittenByAborted(v) ==
    /\ v # ZeroWord
    /\ \/ v[1] = counter /\ outcome[v[2]] = "abort"
       \/ <<v[1], v[2]>> \in aborted

\* ------------------------------------------------------------------------
\* C1: whatever the r/w transactions of the epoch do, a read of a read-only
\* transaction returns the bytes the RO copy held when the epoch began, and
\* the RO copy of every segment is still that snapshot.
\* ------------------------------------------------------------------------
C1_SnapshotStability ==
    /\ \A i \in SegIds : allocs[i].ro = snap[i]
    /\ (ev.op = "read" /\ ev.tx >= MAX_RW_TX) =>
           /\ ev.ok
           /\ \A w \in EvWords : EvVal(w) = snap[ev.seg][w]

\* A read-only transaction read a word that a committed transaction of an
\* earlier epoch wrote and that a r/w transaction of this epoch has overwritten
\* in the R/W copy
C1_Witness ==
    /\ ev.op = "read"
    /\ ev.tx >= MAX_RW_TX
    /\ \E w \in EvWords :
          /\ EvVal(w) # ZeroWord
          /\ allocs[ev.seg].rw[w] # EvVal(w)

\* ------------------------------------------------------------------------
\* C2: an aborted transaction has no visible effect: no successful read of
\* another transaction returns a byte the aborted transaction wrote, and no RO
\* copy holds such a byte.
\* ------------------------------------------------------------------------
C2_AbortedInvisible ==
    /\ (ev.op = "read" /\ ev.ok) =>
           \A w \in EvWords :
               WrittenByAborted(EvVal(w)) =>
                   EvVal(w)[1] = counter /\ EvVal(w)[2] = ev.tx
    /\ \A i \in SegIds : \A w \in 1 .. allocs[i].size :
           ~WrittenByAborted(allocs[i].ro[w])

\* ------------------------------------------------------------------------
\* C3: at the step that ends an epoch, every word a committed R/W
\* transaction of that epoch wrote holds, in the RO copy (and in the R/W copy
\* the next epoch's R/W transactions read), the last value that transaction
\* wrote to it.
\* ------------------------------------------------------------------------
C3_CommittedInstalled ==
    [][counter' = counter + 1 =>
          \A id \in RwTxIds : outcome[id] = "commit" =>
              \A i \in SegIds : \A w \in 1 .. allocs'[i].size :
                  Wrote(history[id], i, w) =>
                      /\ allocs'[i].ro[w] = LastValue(history[id], i, w, counter, id)
                      /\ allocs'[i].rw[w] = LastValue(history[id], i, w, counter, id)]_vars

\* ------------------------------------------------------------------------
\* C4: when batcher_leave(tx, false) has returned, over every range the
\* transaction read or wrote its bit is clear in the access set, and over
\* every range it wrote the R/W copy equals the RO copy and the WRITTEN flag
\* is clear.
\* ------------------------------------------------------------------------
C4_AtomicRollback ==
    (ev.op = "left" /\ ~ev.ok /\ ev.tx < MAX_RW_TX) =>
        \A k \in 1 .. Len(ev.log) :
            LET rec == ev.log[k]
                sn == allocs[rec.seg_id]
            IN (rec.type \in {"READ", "WRITE"} /\ sn # NULL) =>
                   \A w \in Range(rec.offset, rec.size) :
                       /\ ev.tx \notin sn.aset[w]
                       /\ rec.type = "WRITE" =>
                              /\ sn.rw[w] = sn.ro[w]
                              /\ MAX_RW_TX \notin sn.aset[w]

\* ------------------------------------------------------------------------
\* C5: a successful read of a R/W transaction returns, for every word, the
\* last value the transaction itself wrote to the word or, if it wrote none,
\* the value the word had when the epoch began; never a value another
\* transaction of the epoch wrote.
\* ------------------------------------------------------------------------
C5_ReadOwnOrSnapshot ==
    (ev.op = "read" /\ ev.ok /\ ev.tx < MAX_RW_TX) =>
        \A w \in EvWords :
            IF Wrote(history[ev.tx], ev.seg, w)
            THEN EvVal(w) = LastValue(history[ev.tx], ev.seg, w, counter, ev.tx)
            ELSE EvVal(w) = snap[ev.seg][w]

\* The R/W transactions of the epoch that have written word w of segment i
\* and have not aborted
Writers(i, w) ==
    {id \in RwTxIds : outcome[id] # "abort" /\ Wrote(history[id], i, w)}

C7_WriteRule ==
    [][ev'.op = "write" =>
          LET sn == allocs[ev'.seg]
              P == Pattern(ev'.tx)
              words == Range(ev'.first, ev'.n)
              Ge(a, b) == a = b \/ Gt(a, b)
              conflict == \E w \in words :
                  \/ Ge(sn.aset[w], WRITTEN) /\ BitAnd(sn.aset[w], P) = {}
                  \/ /\ Lt(sn.aset[w], WRITTEN)
                     /\ BitAnd(sn.aset[w], BitNot(P)) # {}
          IN /\ ev'.ok = ~conflict
             /\ ev'.ok =>
                    \A w \in words :
                        /\ allocs'[ev'.seg].rw[w] = ev'.vals[w - ev'.first + 1]
                        /\ allocs'[ev'.seg].aset[w] =
                               BitOr(sn.aset[w], BitOr(WRITTEN, P))
             /\ ~ev'.ok => pc'[ev'.t] = "leave" /\ ~committed'[ev'.t]]_vars

\* ------------------------------------------------------------------------
\* C8: tm_read of a R/W transaction returns false (and the transaction is
\* aborted) exactly when some word of the range has A >= WRITTEN and
\* A & P = 0, A = WRITTEN exactly included; otherwise it copies the range of
\* the R/W copy out and sets aset |= P on every word of the range.
\* ------------------------------------------------------------------------
C8_ReadRule ==
    [][(ev'.op = "read" /\ ev'.tx < MAX_RW_TX) =>
          LET sn == allocs[ev'.seg]
              P == Pattern(ev'.tx)
              words == Range(ev'.first, ev'.n)
              Ge(a, b) == a = b \/ Gt(a, b)
              conflict == \E w \in words :
                  Ge(sn.aset[w], WRITTEN) /\ BitAnd(sn.aset[w], P) = {}
          IN /\ ev'.ok = ~conflict
             /\ ev'.ok =>
                    \A w \in words :
                        /\ ev'.vals[w - ev'.first + 1] = sn.rw[w]
                        /\ allocs'[ev'.seg].aset[w] = BitOr(sn.aset[w], P)
             /\ ~ev'.ok => pc'[ev'.t] = "leave" /\ ~committed'[ev'.t]]_vars

\* ------------------------------------------------------------------------
\* C9: a R/W transaction that has written a range and then reads the same
\* range is not refused and reads the value it last wrote.
\* ------------------------------------------------------------------------
C9_ReadYourWrites ==
    (/\ ev.op = "read"
     /\ ev.tx < MAX_RW_TX
     /\ \E k \in 1 .. Len(history[ev.tx]) :
            history[ev.tx][k] = rw("WRITE", ev.seg, ev.first, ev.n)) =>
        /\ ev.ok
        /\ \A w \in EvWords :
               EvVal(w) = LastValue(history[ev.tx], ev.seg, w, counter, ev.tx)

\* The last step was a call of tm_begin(is_ro = false) by thread ev.t
RwBeginCalled == ev.op \in {"begin", "wait"} /\ ev.tx < MAX_RW_TX

\* The R/W transactions admitted to the current epoch that have not left,
\* the caller's aside
AdmittedRW(t) ==
    {u \in Threads \ {t} :
        /\ tx[u] < MAX_RW_TX
        /\ \/ pc[u] \in {"run", "leave"}
           \/ pc[u] = "wait" /\ epoch0[u] # counter}

\* The transactions of either kind admitted to the current epoch that have
\* not left, the caller's aside
Admitted(t) ==
    {u \in Threads \ {t} :
        \/ pc[u] \in {"run", "leave"}
        \/ pc[u] = "wait" /\ epoch0[u] # counter}

\* The threads that hold a R/W id of the next epoch and wait for it, the
\* caller's aside
ParkedRW(t) ==
    {u \in Threads \ {t} :
        pc[u] = "wait" /\ epoch0[u] = counter /\ tx[u] < MAX_RW_TX}

\* ------------------------------------------------------------------------
\* C10 as stated: tm_begin(is_ro = false) returns INVALID exactly when
\* MAX_RW_TX R/W transactions have been admitted to the current epoch and
\* have not left it.
\* ------------------------------------------------------------------------
C10_Original ==
    RwBeginCalled =>
        (ev.tx = invalid_tx <=> Cardinality(AdmittedRW(ev.t)) = MAX_RW_TX)

\* ------------------------------------------------------------------------
\* C10: tm_begin(is_ro = false) returns INVALID exactly when some transaction
\* of the current epoch has not left and MAX_RW_TX threads already hold a R/W
\* id of the next epoch and wait for it; rw_tx is the number of those threads
\* and never exceeds MAX_RW_TX.
\* ------------------------------------------------------------------------
C10_RejectWhenNextEpochFull ==
    /\ rw_tx <= MAX_RW_TX
    /\ RwBeginCalled =>
           /\ ev.tx = invalid_tx <=>
                  /\ Admitted(ev.t) # {}
                  /\ Cardinality(ParkedRW(ev.t)) = MAX_RW_TX
           /\ ev.tx # invalid_tx => ev.tx \in RwTxIds

\* tm_begin(is_ro = false) has just returned INVALID while a single R/W
\* transaction of the current epoch is running
C10_Witness ==
    /\ ev.op = "begin"
    /\ ev.tx = invalid_tx
    /\ Cardinality(AdmittedRW(ev.t)) < MAX_RW_TX
    /\ Cardinality(ParkedRW(ev.t)) = MAX_RW_TX

\* The threads that hold an id of the next epoch and wait for it
Parked == {u \in Threads : pc[u] = "wait" /\ epoch0[u] = counter}

\* ------------------------------------------------------------------------
\* C11: the R/W transactions admitted to one epoch (the current one, or the
\* next one for the threads waiting for it) number at most MAX_RW_TX and
\* carry pairwise distinct ids in 0 .. MAX_RW_TX - 1; tm_begin(is_ro = true)
\* hands out an id >= MAX_RW_TX and never invalid_tx, tm_begin(is_ro =
\* false) an id < MAX_RW_TX or invalid_tx.
\* ------------------------------------------------------------------------
C11_DistinctIds ==
    /\ \A G \in {Admitted(0), Parked} :
           LET rwG == {u \in G : tx[u] < MAX_RW_TX} IN
           /\ Cardinality(rwG) <= MAX_RW_TX
           /\ \A u \in rwG : tx[u] \in RwTxIds
           /\ \A u, v \in rwG : u # v => tx[u] # tx[v]
    /\ ev.op \in {"begin", "wait", "wake"} =>
           IF ev.is_ro
           THEN ev.tx # invalid_tx /\ ev.tx >= MAX_RW_TX /\ ev.ok
           ELSE ev.tx = invalid_tx \/ ev.tx \in RwTxIds

\* A read-only transaction is admitted to an epoch that already has all its
\* MAX_RW_TX R/W transactions
C11_Witness ==
    /\ ev.op = "wait"
    /\ ev.is_ro
    /\ Cardinality({u \in Parked : tx[u] < MAX_RW_TX}) = MAX_RW_TX
    /\ Cardinality({u \in Parked : tx[u] >= MAX_RW_TX}) = 1

\* ------------------------------------------------------------------------
\* C12: with fair threads and transactions that end, a thread blocked in
\* tm_begin returns, and it returns into the epoch that follows the one it
\* blocked in: the epoch counter is then its _counter plus one, and it never
\* exceeds that while the thread waits.
\* ------------------------------------------------------------------------
C12_BlockedReturns ==
    /\ \A t \in 1 .. NBatcherThreads :
           (pc[t] = "wait") ~> (pc[t] = "run" /\ counter = epoch0[t] + 1)
    /\ [](\A t \in 1 .. NBatcherThreads :
             pc[t] = "wait" => counter \in {epoch0[t], epoch0[t] + 1})

\* A thread that blocked has returned from tm_begin while another thread
\* that blocked in the same epoch still waits
C12_Witness ==
    /\ ev.op = "wake"
    /\ counter = epoch0[ev.t] + 1
    /\ \E u \in Threads : pc[u] = "wait" /\ epoch0[u] = epoch0[ev.t]

\* ------------------------------------------------------------------------
\* C13: a tm_begin called while remaining > 0 does not admit the caller to
\* the running epoch: the caller returns only after the epoch counter has
\* been incremented; a tm_begin called while remaining = 0 returns at once
\* with id 0 (R/W) or MAX_RW_TX (read-only) and the caller is the only
\* transaction of its epoch; the threads blocked when the counter is
\* incremented are all released into the same next epoch.
\* ------------------------------------------------------------------------
C13_Cohorts ==
    [][/\ ev'.op \in {"begin", "wait"} =>
              IF remaining = 0
              THEN /\ ev'.op = "begin"
                   /\ ev'.tx = IF ev'.is_ro THEN MAX_RW_TX ELSE 0
                   /\ pc'[ev'.t] = "run"
              ELSE pc'[ev'.t] # "run"
       /\ ev'.op = "wake" => counter = epoch0[ev'.t] + 1
       /\ \A t \in Threads :
              (pc'[t] \in {"run", "leave"} /\ epoch0'[t] = counter') =>
                  /\ remaining' = 1
                  /\ \A u \in Threads \ {t} : pc'[u] \in {"idle", "wait"}
                  /\ \A u \in Threads \ {t} : pc'[u] = "wait" => epoch0'[u] = counter'
       /\ counter' # counter =>
              /\ remaining' = Cardinality({u \in Threads : pc[u] = "wait"})
              /\ \A u \in Threads :
                     pc[u] = "wait" => epoch0[u] = counter /\ Released(epoch0[u])']_vars

\* Two threads that blocked while a transaction was running have been
\* released together, and one of them has returned from tm_begin
C13_Witness ==
    /\ ev.op = "wake"
    /\ remaining >= 2
    /\ \E u \in Threads \ {ev.t} :
           pc[u] = "wait" /\ epoch0[u] = epoch0[ev.t] /\ epoch0[u] # counter

\* ------------------------------------------------------------------------
\* C14: the epoch counter never decreases and changes only by the
\* end-of-epoch procedure, which adds exactly 1; remaining is 0 exactly when
\* no transaction is admitted and not yet left.
\* ------------------------------------------------------------------------
C14_EpochMonotonic ==
    [][/\ counter' >= counter
       /\ counter' # counter =>
              counter' = counter + 1 /\ ev'.op = "left" /\ remaining = 1
       /\ (ev'.op = "left" /\ remaining = 1) => counter' = counter + 1
       /\ remaining' = 0 <=> Admitted(0)' = {}]_vars

\* An epoch with two transactions has ended with no thread waiting
C14_Witness ==
    /\ ev.op = "left"
    /\ counter = 2
    /\ remaining = 0

C16_NomemContinues ==
    /\ (ev.op = "alloc" /\ ev.vals[1] = "nomem_alloc") =>
           pc[ev.t] = "run" /\ committed[ev.t]
    /\ ev.op = "left" => ev.vals[1] # "nomem_alloc"

\* ------------------------------------------------------------------------
\* C17: a tm_alloc whose segment cannot be allocated by the host leaves top,
\* the id stack and the segment table as they were before the call.
\* ------------------------------------------------------------------------
C17_NomemPushesBack ==
    [][(ev'.op = "alloc" /\ ev'.vals[3] = "segment" /\ ~SegOverflow(top)) =>
          /\ ev'.vals[1] = "nomem_alloc"
          /\ top' = top
          /\ segment_id' = segment_id
          /\ allocs' = allocs]_vars

\* The indices of the non-empty slots of the segment table
Occupied == {i \in SegIds : allocs[i] # NULL}

\* ------------------------------------------------------------------------
\* C18: between operations top - 1 is the number of non-empty slots of the
\* segment table, and the segment in slot i has seg_id i.
\* ------------------------------------------------------------------------
C18_TopCountsSegments ==
    (\A t \in Threads : pc[t] # "leave") =>
        /\ top - 1 = Cardinality(Occupied)
        /\ \A i \in Occupied : allocs[i].seg_id = i

\* ------------------------------------------------------------------------
\* C19: after every end-of-epoch procedure the ids stored in the id stack
\* and the indices of the occupied slots form a partition of
\* 1 .. MAX_SEG - 1; the stored ids are read either as the positions
\* 1 .. top - 1 the sentence names or as the positions top .. MAX_SEG - 1
\* that alloc_segment pops from.
\* ------------------------------------------------------------------------
C19_IdConservation ==
    [][LET Conserved(P) ==
               /\ \A k, l \in P : k # l => segment_id[k] # segment_id[l]
               /\ {segment_id[k] : k \in P} \cap Occupied = {}
               /\ {segment_id[k] : k \in P} \cup Occupied = SegIds
       IN counter' # counter =>
              (Conserved(1 .. (top - 1))
                  \/ Conserved(top .. (MAX_SEG - 1)))']_vars

\* ------------------------------------------------------------------------
\* C20: with top = MAX_SEG tm_alloc returns abort_alloc, creates no segment
\* and leaves top, the id stack and the segment table unchanged, and aborts
\* the transaction; when that leave has returned every operation of the
\* transaction is rolled back (over the ranges it read or wrote its bit is
\* clear, over those it wrote the R/W copy equals the RO copy and WRITTEN is
\* clear, the segments it allocated are marked freed or reclaimed).  With
\* top < MAX_SEG and a host allocator that does not fail, tm_alloc succeeds.
\* ------------------------------------------------------------------------
C20_Overflow ==
    [][/\ (ev'.op = "alloc" /\ top = MAX_SEG) =>
              /\ ev'.vals[1] = "abort_alloc"
              /\ top' = top /\ segment_id' = segment_id /\ allocs' = allocs
              /\ pc'[ev'.t] = "leave" /\ ~committed'[ev'.t]
       /\ (ev'.op = "alloc" /\ top < MAX_SEG /\ ev'.vals[3] = "ok") =>
              /\ ev'.ok
              /\ ev'.vals[1] = "success_alloc"
              /\ allocs'[ev'.seg] # NULL
              /\ top' = top + 1
       /\ (ev'.op = "left" /\ ev'.vals = <<"abort_alloc", "SEG_OVERFLOW">>) =>
              \A k \in 1 .. Len(ev'.log) :
                  LET rec == ev'.log[k]
                      sn == allocs'[rec.seg_id]
                  IN sn # NULL =>
                     /\ rec.type \in {"READ", "WRITE"} =>
                            \A w \in Range(rec.offset, rec.size) :
                                /\ ev'.tx \notin sn.aset[w]
                                /\ rec.type = "WRITE" =>
                                       /\ sn.rw[w] = sn.ro[w]
                                       /\ MAX_RW_TX \notin sn.aset[w]
                     /\ rec.type = "ALLOC" => sn.freed]_vars

\* The segments named by the records of a type in a log
SegsOf(log, type) ==
    {log[k].seg_id : k \in {j \in 1 .. Len(log) : log[j].type = type}}

\* The ids the id stack holds for alloc_segment to pop
FreeIds == {segment_id[k] : k \in top .. (MAX_SEG - 1)}

\* ------------------------------------------------------------------------
\* C21: tm_free of the first segment returns false, records no FREE and
\* aborts the calling transaction; when that leave has returned the earlier
\* operations of the transaction are rolled back (over the ranges it read or
\* wrote its bit is clear, over those it wrote the R/W copy equals the RO
\* copy and WRITTEN is clear); and slot FIRST_SEG of the segment table is
\* never empty.
\* ------------------------------------------------------------------------
C21_FirstSegment ==
    [][/\ allocs'[FIRST_SEG] # NULL
       /\ (ev'.op = "free" /\ ev'.seg = FIRST_SEG) =>
              /\ ~ev'.ok
              /\ res'[ev'.t][1] = "false"
              /\ history' = history
              /\ pc'[ev'.t] = "leave" /\ ~committed'[ev'.t]
       /\ (ev'.op = "left" /\ ev'.vals = <<"false", "FIRST_SEG">>) =>
              \A k \in 1 .. Len(ev'.log) :
                  LET rec == ev'.log[k]
                      sn == allocs'[rec.seg_id]
                  IN (rec.type \in {"READ", "WRITE"} /\ sn # NULL) =>
                         \A w \in Range(rec.offset, rec.size) :
                             /\ ev'.tx \notin sn.aset[w]
                             /\ rec.type = "WRITE" =>
                                    /\ sn.rw[w] = sn.ro[w]
                                    /\ MAX_RW_TX \notin sn.aset[w]]_vars

\* ------------------------------------------------------------------------
\* C22: a successful tm_free only prepends a FREE record; a segment leaves
\* the segment table only in the end-of-epoch procedure, and that procedure
\* reclaims a segment other than the first (slot emptied, id pushed back on
\* the id stack) exactly when a transaction of the epoch that freed it
\* committed or a transaction of the epoch that allocated it aborted;
\* otherwise the segment stays registered under its id.
\* ------------------------------------------------------------------------
C22_DeferredFree ==
    [][/\ (ev'.op = "free" /\ ev'.ok) =>
              /\ allocs' = allocs /\ top' = top /\ segment_id' = segment_id
              /\ history' = [history EXCEPT ![ev'.tx] =
                                <<af("FREE", ev'.seg)>> \o @]
       /\ \A i \in SegIds : (allocs[i] # NULL /\ allocs'[i] = NULL) =>
              counter' = counter + 1
       /\ counter' = counter + 1 =>
              \A i \in SegIds \ {FIRST_SEG} : allocs[i] # NULL =>
                  IF \E id \in RwTxIds :
                         \/ outcome[id] = "commit"
                              /\ i \in SegsOf(history[id], "FREE")
                         \/ outcome[id] = "abort"
                              /\ i \in SegsOf(history[id], "ALLOC")
                  THEN allocs'[i] = NULL /\ i \in FreeIds'
                  ELSE /\ allocs'[i] # NULL
                       /\ allocs'[i].seg_id = i
                       /\ allocs'[i].rw = allocs[i].rw
                       /\ i \notin FreeIds']_vars

\* An epoch ends in which a transaction freed a segment and aborted and no
\* other transaction freed it: the segment stays
C22_Witness ==
    /\ ev.op = "left"
    /\ ev.vals # <<"true">>
    /\ counter = 2
    /\ \E i \in SegsOf(ev.log, "FREE") :
          allocs[i] # NULL /\ i \notin SegsOf(ev.log, "ALLOC")

\* ------------------------------------------------------------------------
\* C23: when the leave of an aborted transaction has returned, every segment
\* it allocated is marked freed or already reclaimed, and the end-of-epoch
\* procedure of that epoch reclaims it: the slot is empty and the id is on
\* the id stack for alloc_segment to pop.  A tm_alloc that succeeds registers
\* a segment whose two copies are zero, and a segment allocated by a
\* transaction that commits, which no committed transaction of the epoch
\* frees, stays registered under the same id.
\* ------------------------------------------------------------------------
C23_AllocAbortReclaim ==
    [][/\ (ev'.op = "left" /\ ~ev'.ok) =>
              \A i \in SegsOf(ev'.log, "ALLOC") :
                  allocs'[i] = NULL \/ allocs'[i].freed
       /\ (ev'.op = "alloc" /\ ev'.ok) =>
              /\ allocs'[ev'.seg] = NewSegment(ev'.seg, ev'.n)
              /\ \A w \in 1 .. ev'.n :
                     /\ allocs'[ev'.seg].ro[w] = ZeroWord
                     /\ allocs'[ev'.seg].rw[w] = ZeroWord
       /\ counter' = counter + 1 =>
              \A id \in RwTxIds : \A i \in SegsOf(history[id], "ALLOC") :
                  /\ outcome[id] = "abort" =>
                         allocs'[i] = NULL /\ i \in FreeIds'
                  /\ (/\ outcome[id] = "commit"
                      /\ \A f \in RwTxIds :
                             i \in SegsOf(history[f], "FREE") =>
                                 outcome[f] # "commit") =>
                         /\ allocs'[i] # NULL
                         /\ allocs'[i].seg_id = i
                         /\ i \notin FreeIds'
                         /\ (\A f \in RwTxIds :
                                 i \notin SegsOf(history[f], "WRITE")) =>
                                \A w \in 1 .. allocs'[i].size :
                                    /\ allocs'[i].ro[w] = ZeroWord
                                    /\ allocs'[i].rw[w] = ZeroWord]_vars

\* An epoch has ended with the leave of a transaction that allocated a
\* segment and aborted: the id is back on the stack
C23_Witness ==
    /\ ev.op = "left"
    /\ ~ev.ok
    /\ counter = 2
    /\ \E i \in SegsOf(ev.log, "ALLOC") : allocs[i] = NULL /\ i \in FreeIds

\* The threads whose transaction has R/W id id and has not left the batch
Holders(id) == {u \in Threads : pc[u] \in {"run", "leave"} /\ tx[u] = id}

\* ------------------------------------------------------------------------
\* C24: the log of a R/W id is non-empty only while a transaction with that
\* id is admitted and has not left: when batcher_leave returns the log of
\* its transaction is empty, and it stays empty until a transaction admitted
\* with that id performs an operation.
\* ------------------------------------------------------------------------
C24_LogEmptyAfterLeave ==
    /\ \A id \in RwTxIds : history[id] # <<>> => Holders(id) # {}
    /\ (ev.op = "left" /\ ev.tx < MAX_RW_TX) => history[ev.tx] = <<>>

\* ------------------------------------------------------------------------
\* C25: the end-of-epoch procedure runs only when no other thread is inside
\* a transaction (every other thread is outside or still parked in
\* batcher_enter, none yet released into the next epoch), and the RO copy of
\* a registered segment changes in no other step.
\* ------------------------------------------------------------------------
C25_SingleThreadedWindow ==
    [][/\ counter' # counter =>
              /\ ev'.op = "left"
              /\ \A u \in Threads \ {ev'.t} :
                     /\ pc[u] \in {"idle", "wait"}
                     /\ pc[u] = "wait" => epoch0[u] = counter
       /\ \A i \in SegIds :
              (allocs[i] # NULL /\ allocs'[i] # NULL
                  /\ allocs'[i].ro # allocs[i].ro) => counter' # counter]_vars

\* The end of an epoch installs the bytes of a committed transaction in the
\* RO copy while threads are parked for the next epoch
C25_Witness ==
    /\ ev.op = "left"
    /\ counter = 1
    /\ \E u \in Threads : pc[u] = "wait"
    /\ \E w \in 1 .. allocs[FIRST_SEG].size :
          allocs[FIRST_SEG].ro[w] # ZeroWord

\* ------------------------------------------------------------------------
\* C26: tm_end returns true and aborts no other transaction; unless it is
\* the last leave of the epoch, the call (the walk over the log and the
\* leave) changes no access-set word, no byte of either copy, no log and no
\* other thread's admission state.
\* ------------------------------------------------------------------------
C26_EndFrame ==
    [][(ev'.op = "end" \/ (ev'.op = "left" /\ ev'.ok)) =>
          /\ ev'.op = "end" => res'[ev'.t] = <<"true">>
          /\ ev'.op = "left" => ev'.vals = <<"true">>
          /\ \A id \in RwTxIds \ {ev'.tx} :
                 outcome[id] = "none" => outcome'[id] = "none"
          /\ counter' = counter =>
                 /\ \A i \in SegIds :
                        /\ allocs'[i].aset = allocs[i].aset
                        /\ allocs'[i].rw = allocs[i].rw
                        /\ allocs'[i].ro = allocs[i].ro
                 /\ history' = history
                 /\ \A u \in Threads \ {ev'.t} :
                        /\ pc'[u] = pc[u]
                        /\ tx'[u] = tx[u]
                        /\ committed'[u] = committed[u]]_vars

\* A transaction that wrote has committed and left while another
\* transaction of the epoch is still running
C26_Witness ==
    /\ ev.op = "left"
    /\ ev.ok
    /\ \E k \in 1 .. Len(ev.log) : ev.log[k].type = "WRITE"
    /\ \E u \in Threads : pc[u] = "run"

\* ------------------------------------------------------------------------
\* C29: a tm_begin that returns invalid_tx changes nothing: the epoch, the
\* id counters, remaining and blocked, the logs, the segments and every
\* thread are as before the call, and the caller is outside every batch.
\* ------------------------------------------------------------------------
C29_RejectNoEffect ==
    [][(ev'.op = "begin" /\ ~ev'.ok) =>
          /\ ev'.tx = invalid_tx
          /\ counter' = counter
          /\ rw_tx' = rw_tx
          /\ ro_tx' = ro_tx
          /\ remaining' = remaining
          /\ blocked' = blocked
          /\ history' = history
          /\ allocs' = allocs /\ top' = top /\ segment_id' = segment_id
          /\ pc' = pc /\ tx' = tx
          /\ pc'[ev'.t] = "idle"
          /\ remaining' + blocked' =
                 Cardinality({u \in Threads : pc'[u] \in {"run", "leave", "wait"}})]_vars

\* A tm_begin has been rejected while threads are parked for the next epoch
C29_Witness ==
    /\ ev.op = "begin"
    /\ ~ev.ok
    /\ blocked = MAX_RW_TX
    /\ remaining > 0

\* ------------------------------------------------------------------------
\* C30: once the leave of an aborted transaction has returned, its accesses
\* abort no other transaction of the epoch: a tm_read or tm_write that is
\* refused covers a word that a transaction of the epoch other than the
\* caller accessed and that has not aborted and left.
\* ------------------------------------------------------------------------
C30_AbortedDoesNotAbort ==
    (ev.op \in {"read", "write"} /\ ~ev.ok /\ ev.vals = <<>>) =>
        \E id \in RwTxIds \ {ev.tx} :
            /\ \E k \in 1 .. Len(history[id]) :
                  /\ history[id][k].type \in {"READ", "WRITE"}
                  /\ history[id][k].seg_id = ev.seg
                  /\ Range(history[id][k].offset, history[id][k].size)
                         \cap EvWords # {}
            /\ outcome[id] = "abort" => Holders(id) # {}

\* ------------------------------------------------------------------------
\* C28: in the batcher whose enter waits while (remaining > 0), the
\* end-of-epoch broadcast finds remaining already set to the number of
\* blocked threads, so a thread that has blocked waits again whenever it is
\* woken and is never admitted; the predicate on the epoch, evaluated in the
\* same state, lets every thread the broadcast wakes proceed.
\* ------------------------------------------------------------------------
C28_TemplateParking ==
    [][/\ \A t \in Threads : pc[t] = "wait" => pc'[t] = "wait"
       /\ ev'.op = "wake" => ~ev'.ok
       /\ counter' # counter =>
              /\ remaining' = blocked
              /\ \A t \in Threads : pc'[t] = "wait" =>
                     /\ remaining' > 0
                     /\ ~Template_Released(epoch0[t])'
                     /\ Released(epoch0[t])']_vars

\* After the broadcast a blocked thread has been woken and waits again
C28_Witness ==
    /\ ev.op = "wake"
    /\ pc[ev.t] = "wait"
    /\ counter > epoch0[ev.t]
    /\ remaining = Cardinality({u \in Threads : pc[u] = "wait"})

\* The thread is spinning in acquire on a per-word lock that is set
Spinning(t) ==
    /\ locking[t].phase = "acquire"
    /\ aset_locks[locking[t].seg][
           IF locking[t].kind = "rollback"
           THEN RollbackLockOrder(locking[t].first, locking[t].n)[locking[t].i]
           ELSE OpLockOrder(locking[t].first, locking[t].n)[locking[t].i]] # 0

\* The thread that set the lock a spinning thread waits for
WaitsFor(t) ==
    aset_locks[locking[t].seg][
        IF locking[t].kind = "rollback"
        THEN RollbackLockOrder(locking[t].first, locking[t].n)[locking[t].i]
        ELSE OpLockOrder(locking[t].first, locking[t].n)[locking[t].i]]

\* ------------------------------------------------------------------------
\* C27: no set of threads is such that each spins on a per-word lock held
\* by another of the set; a thread that is not inside tm_read, tm_write or
\* the rollback of a record holds no per-word lock, so none is held when an
\* operation returns or calls batcher_leave, nor when batcher_leave or
\* batcher_enter waits for the batcher mutex.
\* ------------------------------------------------------------------------
C27_NoLockCycle ==
    /\ \A C \in SUBSET Threads :
           C # {} => \E t \in C : ~(Spinning(t) /\ WaitsFor(t) \in C)
    /\ \A t \in Threads : locking[t] = NoOp => LocksOf(t) = {}
    /\ \A t \in Threads :
           (pc[t] \in {"idle", "wait", "run"} \/ (pc[t] = "leave" /\ r[t] = <<>>))
               => locking[t] = NoOp
    /\ (ev.op \in {"read", "write"} /\ ~ev.ok) => ev.locks = {}

\* A thread that holds the lock of one word spins on the lock of the next
\* word, which a thread rolling back a record holds
C27_Witness ==
    \E t, u \in Threads :
        /\ Spinning(t)
        /\ LocksOf(t) # {}
        /\ WaitsFor(t) = u
        /\ locking[u].kind = "rollback"

\* ------------------------------------------------------------------------
\* C31: the rollback of an aborted transaction T, record by record, changes
\* the read/write copy only on words whose bytes T wrote in this epoch, and
\* changes an access-set word only by clearing T's own bit (and the written
\* flag of a word T wrote): it never overwrites bytes another transaction
\* wrote in the same epoch and never clears another transaction's bit.
\* ------------------------------------------------------------------------
C31_RollbackFrame ==
    [][(ev'.op = "record" /\ ~ev'.ok) =>
          \A i \in SegIds : (allocs[i] # NULL /\ allocs'[i] # NULL) =>
              \A w \in 1 .. allocs[i].size :
                  /\ allocs'[i].rw[w] # allocs[i].rw[w] =>
                         /\ allocs[i].rw[w][1] = counter
                         /\ allocs[i].rw[w][2] = ev'.tx
                  /\ allocs'[i].aset[w] \subseteq allocs[i].aset[w]
                  /\ allocs[i].aset[w] \ allocs'[i].aset[w]
                         \subseteq (Pattern(ev'.tx) \cup WRITTEN)
                  /\ MAX_RW_TX \in allocs[i].aset[w] \ allocs'[i].aset[w] =>
                         allocs[i].aset[w] \subseteq
                             (Pattern(ev'.tx) \cup WRITTEN)]_vars

\* ------------------------------------------------------------------------
\* C32: a tm_read or tm_write that detects a conflict at some word of its
\* range has modified no access-set word and no byte of a read/write copy,
\* and releases exactly the per-word locks it had acquired: those of the
\* words from the first of the range up to and including the conflicting
\* one.  Stated over the loop turns of the call: no turn of the acquire loop
\* but the last successful one, and no turn of a release loop, changes a
\* segment; when the conflict is found the caller holds the locks of the
\* words first .. conflicting and no other; every release clears a lock the
\* caller holds; and the call enters batcher_leave holding none.
\* ------------------------------------------------------------------------
C32_ConflictFrame ==
    [][\A t \in Threads :
          LET o == locking[t]
              p == locking'[t]
          IN (o.kind \in {"read", "write"} /\ p # o) =>
                 /\ (p.abort \/ o.phase = "release" \/ p.phase = "acquire") =>
                        allocs' = allocs
                 /\ (p.abort /\ ~o.abort) =>
                        /\ LocksOf(t)' = {<<o.seg, w>> :
                                             w \in o.first .. (o.first + o.i - 1)}
                        /\ p.got = o.i
                 /\ (o.abort /\ o.phase = "release") =>
                        /\ Cardinality(LocksOf(t)') = Cardinality(LocksOf(t)) - 1
                        /\ LocksOf(t)' \subseteq LocksOf(t)
                 /\ (o.abort /\ p = NoOp) =>
                        /\ LocksOf(t)' = {}
                        /\ pc'[t] = "leave"
                        /\ ~ev'.ok /\ ev'.locks = {}
                        /\ UNCHANGED history]_vars

\* A tm_write over two words found the conflict at the second word and has
\* released both locks
C32_Witness ==
    /\ ev.op = "write"
    /\ ~ev.ok
    /\ ev.n = 2
    /\ pc[ev.t] = "leave"
    /\ locking[ev.t] = NoOp
    /\ ~WriteConflict(allocs[ev.seg].aset[ev.first], Pattern(ev.tx))
    /\ WriteConflict(allocs[ev.seg].aset[ev.first + 1], Pattern(ev.tx))
    /\ LocksOf(ev.t) = {}

\* ------------------------------------------------------------------------
\* C33: when the end-of-epoch processing has finished (counter has just been
\* incremented), every live segment has all access-set words zero, its
\* written flag false and a read/write copy identical to its read-only copy,
\* every log head is empty, rw_tx is 0 and ro_tx is MAX_RW_TX, whatever mix
\* of commits and aborts the epoch held.
\* ------------------------------------------------------------------------
C33_CleanEpochStart ==
    [][counter' # counter =>
          /\ \A i \in SegIds : allocs'[i] # NULL =>
                 /\ \A w \in 1 .. allocs'[i].size :
                        /\ allocs'[i].aset[w] = {}
                        /\ allocs'[i].rw[w] = allocs'[i].ro[w]
                 /\ ~allocs'[i].written
          /\ \A id \in RwTxIds : history'[id] = <<>>
          /\ rw_tx' = 0
          /\ ro_tx' = MAX_RW_TX]_vars

\* ------------------------------------------------------------------------
\* C34: when the allocation of the log record fails after the effect of the
\* operation has been applied, the operation returns failure and the abort
\* still undoes that last effect: once the leave has returned the read/write
\* copy equals the read-only copy on the range of the failed tm_write, the
\* caller's bit (and the written flag) is clear on the range of the failed
\* tm_read or tm_write, and the segment the failed tm_alloc registered is
\* marked freed, to be reclaimed at the end of the epoch.
\* ------------------------------------------------------------------------
C34_UnrecordedEffectUndone ==
    [][/\ (ev'.op \in {"read", "write"} /\ ~ev'.ok /\ ev'.vals # <<>>
           /\ ev'.tx < MAX_RW_TX) =>
              /\ pc'[ev'.t] = "leave"
              /\ res'[ev'.t] = <<"false">>
       /\ (ev'.op = "alloc" /\ ~ev'.ok /\ ev'.vals[3] = "record") =>
              /\ pc'[ev'.t] = "leave"
       /\ (ev'.op = "left"
           /\ ev.op \in {"read", "write"} /\ ~ev.ok /\ ev.vals # <<>>
           /\ ev.t = ev'.t /\ ev.tx < MAX_RW_TX) =>
              \A w \in Range(ev.first, ev.n) :
                  /\ ev.tx \notin allocs'[ev.seg].aset[w]
                  /\ ev.op = "write" =>
                         /\ allocs'[ev.seg].rw[w] = allocs'[ev.seg].ro[w]
                         /\ MAX_RW_TX \notin allocs'[ev.seg].aset[w]
       /\ (ev'.op = "left"
           /\ ev.op = "alloc" /\ ~ev.ok /\ ev.vals[3] = "record"
           /\ ev.t = ev'.t) =>
              \/ allocs'[ev.seg] = NULL
              \/ allocs'[ev.seg].freed]_vars

\* ------------------------------------------------------------------------
\* C35: between critical sections of the batcher, remaining equals the
\* number of transactions admitted to the current epoch that have not yet
\* left, counting the threads the last broadcast released that have not yet
\* returned from begin; blocked equals the number of threads waiting for the
\* next epoch; remaining is never below zero.
\* ------------------------------------------------------------------------
C35_Counts ==
    /\ remaining = Cardinality(Admitted(0))
    /\ blocked = Cardinality(Parked)
    /\ remaining >= 0

\* C35 as stated: remaining equals the number of transactions that have
\* returned from begin with a valid id and have not yet left, and blocked
\* equals the number of threads waiting inside begin
C35_Original ==
    /\ remaining = Cardinality({u \in Threads : pc[u] \in {"run", "leave"}})
    /\ blocked = Cardinality({u \in Threads : pc[u] = "wait"})
    /\ remaining >= 0

\* The epoch has just ended with threads blocked: they are counted in
\* remaining and none of them has returned from begin yet
C35_Witness ==
    /\ ev.op = "left"
    /\ remaining = MAX_RW_TX + 1
    /\ blocked = 0
    /\ Cardinality({u \in Threads : pc[u] = "wait"}) = remaining
    /\ \A u \in Threads : pc[u] \notin {"run", "leave"}

\* ------------------------------------------------------------------------
\* C36: the end-of-epoch processing runs exactly once per epoch and is done
\* by the last transaction to leave, whether it committed, aborted or was
\* read-only: counter changes only in the leave that takes remaining from 1
\* to 0 and every such leave changes it, by one.  In that same step the
\* freed segments are reclaimed, the written segments installed, the access
\* sets reset, remaining set to blocked, blocked to 0, rw_tx to 0 and ro_tx
\* to MAX_RW_TX; a waiter returns from begin only after this step.
\* ------------------------------------------------------------------------
C36_EndOfEpochOnce ==
    [][/\ counter' # counter <=> (ev'.op = "left" /\ remaining = 1)
       /\ counter' # counter =>
              /\ counter' = counter + 1
              /\ pc[ev'.t] = "leave"
              /\ \A u \in Threads \ {ev'.t} : pc[u] \notin {"run", "leave"}
              /\ \A i \in SegIds :
                     /\ allocs[i] # NULL /\ allocs[i].freed =>
                            allocs'[i] = NULL
                     /\ allocs[i] # NULL /\ ~allocs[i].freed =>
                            /\ allocs'[i] # NULL
                            /\ allocs'[i].ro = IF allocs[i].written
                                               THEN allocs[i].rw
                                               ELSE allocs[i].ro
                            /\ ~allocs'[i].written
                            /\ \A w \in 1 .. allocs'[i].size :
                                   allocs'[i].aset[w] = {}
              /\ remaining' = blocked
              /\ blocked' = 0
              /\ rw_tx' = 0
              /\ ro_tx' = MAX_RW_TX
       /\ ev'.op = "wake" =>
              /\ counter' = counter
              /\ epoch0[ev'.t] < counter
              /\ blocked' = blocked
              /\ remaining' = remaining]_vars

\* An aborted transaction, the last to leave an epoch in which another one
\* committed a write, has ended the epoch: the write is installed and the
\* outcomes of the epoch are void
C36_Witness ==
    /\ ev.op = "left"
    /\ ~ev.ok
    /\ ev.tx < MAX_RW_TX
    /\ outcome[ev.tx] = "none"
    /\ counter > 1
    /\ \E i \in SegIds :
           /\ allocs[i] # NULL
           /\ allocs[i].ro[1] # ZeroWord
           /\ allocs[i].ro[1][1] = counter - 1

\* ------------------------------------------------------------------------
\* C37: allocation never hands out the id of a live segment: an id is taken
\* from the stack only if its slot of the segment table is empty, the
\* segments that concurrent transactions allocated have distinct ids, and
\* after any sequence of allocations, failures, frees and epoch ends the ids
\* at the stack positions top .. MAX_SEG - 1 are pairwise distinct and are
\* exactly the ids of the empty slots.
\* ------------------------------------------------------------------------
C37_FreshIds ==
    [][/\ (ev'.op = "alloc" /\ ev'.seg # 0) => allocs[ev'.seg] = NULL
       /\ \A a, b \in RwTxIds : a # b =>
              SegsOf(history'[a], "ALLOC") \cap SegsOf(history'[b], "ALLOC") = {}
       /\ \A k, l \in top' .. (MAX_SEG - 1) :
              k # l => segment_id'[k] # segment_id'[l]
       /\ FreeIds' = SegIds \ Occupied']_vars

\* ------------------------------------------------------------------------
\* C38: repeated operations by the same R/W transaction on the same words
\* are permitted and idempotent on the access set: a tm_read (tm_write) of a
\* range the transaction has already read (written) succeeds and leaves
\* every access-set word as it was, and a tm_read of a word the transaction
\* has written leaves the word at WRITTEN | P.
\* ------------------------------------------------------------------------
C38_RepeatIdempotent ==
    [][(ev'.op \in {"read", "write"} /\ ev'.tx < MAX_RW_TX) =>
          LET log == history[ev'.tx]
              type == IF ev'.op = "read" THEN "READ" ELSE "WRITE"
              words == Range(ev'.first, ev'.n)
              sn == allocs[ev'.seg]
          IN /\ (\E k \in 1 .. Len(log) :
                    /\ log[k].type = type
                    /\ log[k].seg_id = ev'.seg
                    /\ log[k].offset = ev'.first
                    /\ log[k].size = ev'.n) =>
                    /\ ev'.ok
                    /\ allocs'[ev'.seg].aset = sn.aset
             /\ (ev'.op = "read" /\ \A w \in words : Wrote(log, ev'.seg, w)) =>
                    /\ ev'.ok
                    /\ \A w \in words :
                           allocs'[ev'.seg].aset[w] =
                               BitOr(WRITTEN, Pattern(ev'.tx))]_vars

\* A transaction has read a word it had written before
C38_Witness ==
    /\ ev.op = "read"
    /\ ev.ok
    /\ ev.tx < MAX_RW_TX
    /\ Len(history[ev.tx]) = 2
    /\ history[ev.tx][1].type = "READ"
    /\ history[ev.tx][2].type = "WRITE"
    /\ history[ev.tx][2].seg_id = ev.seg
    /\ history[ev.tx][2].offset = ev.first
    /\ allocs[ev.seg].aset[ev.first] = BitOr(WRITTEN, Pattern(ev.tx))

\* ------------------------------------------------------------------------
\* The write-conflict test of the other tm.c (src/371274)
\* ------------------------------------------------------------------------

\* The value of a C relational expression, an int 1 or 0, as a word
CBool(b) == IF b THEN {0} ELSE {}

\* if (bitmap & ~WRITTEN & ~pattern > 0): in C `>` binds tighter than `&`,
\* so the operands of the two `&` are bitmap, ~WRITTEN and (~pattern > 0)
WriteConflict_371274(bitmap, pattern) ==
    BitAnd(BitAnd(bitmap, BitNot(WRITTEN)),
           CBool(Gt(BitNot(pattern), {}))) # {}

\* ------------------------------------------------------------------------
\* C39: the single-expression write-conflict test of src/371274/tm.c aborts
\* in exactly the same cases as the two-clause test of src/dv-stm/tm.c, for
\* every access-set value reachable under the protocol and every R/W id.
\* ------------------------------------------------------------------------
C39_SameWriteTest ==
    \A i \in SegIds : allocs[i] # NULL =>
        \A w \in 1 .. allocs[i].size : \A id \in RwTxIds :
            WriteConflict_371274(allocs[i].aset[w], Pattern(id))
                <=> WriteConflict(allocs[i].aset[w], Pattern(id))

\* ------------------------------------------------------------------------
\* Opaque addresses.  A 64-bit value is the set of the positions of its set
\* bits, as an access-set word is.
\* ------------------------------------------------------------------------

\* #define SHIFT 48
SHIFT == 48

\* The width of uintptr_t and of uint64_t
UINTPTR_BITS == 64

\* The ids alloc_segment pops: segment_id[i] = i for i < MAX_SEG (64 in the
\* source), ids from FIRST_SEG on
SOURCE_MAX_SEG == 64

\* #define NOMEM 0x1000000000000000
NOMEM == {60}

\* #define SEG_OVERFLOW 0x0100000000000000
SEG_OVERFLOW == {56}

\* #define ADDR_OFFSET 0x0000FFFFFFFFFFFF
ADDR_OFFSET == 0 .. 47

\* The uint8_t seg_id as a word
ToBits(n) == {b \in 0 .. 7 : (n \div (2 ^ b)) % 2 = 1}

\* The number a uint8_t holds
FromBits(S) == CHOOSE n \in 0 .. 255 : ToBits(n) = S

\* x << k on uintptr_t: the bits shifted out are lost
ShiftLeft(S, k) == {b + k : b \in S} \cap (0 .. (UINTPTR_BITS - 1))

\* x >> k on uintptr_t
ShiftRight(S, k) == {b - k : b \in {c \in S : c >= k}}

\* (uint8_t) x: the low eight bits
Uint8(S) == S \cap (0 .. 7)

\* a + b on uintptr_t, bit by bit with carry from position i on
RECURSIVE AddFrom(_, _, _, _)
AddFrom(a, b, i, carry) ==
    IF i >= UINTPTR_BITS THEN {}
    ELSE LET s == (IF i \in a THEN 1 ELSE 0) + (IF i \in b THEN 1 ELSE 0) + carry
         IN (IF s % 2 = 1 THEN {i} ELSE {}) \cup AddFrom(a, b, i + 1, s \div 2)

\* The address of the byte at an offset of a segment: pointer arithmetic on
\* the handle
AddOffset(handle, offset) == AddFrom(handle, offset, 0, 0)

\* Mutant: the handle is the segment id shifted by one bit less
OpaqueAddr_Low(seg_id) == ShiftLeft(ToBits(seg_id), SHIFT - 1)

\* alloc_segment: uintptr_t oaddr = (uintptr_t) seg_id; return oaddr << SHIFT
OpaqueAddr(seg_id) == ShiftLeft(ToBits(seg_id), SHIFT)

\* tm_read, tm_write, tm_free: (uint8_t) ((uintptr_t) source >> SHIFT)
SegIdOf(addr) == FromBits(Uint8(ShiftRight(addr, SHIFT)))

\* tm_read, tm_write: (uintptr_t) source & ADDR_OFFSET
OffsetOf(addr) == BitAnd(addr, ADDR_OFFSET)

\* The offsets tried: every combination of the lowest, the highest and some
\* middle bits below 2^48, and the largest offset
Offsets == SUBSET {0, 1, 24, 46, 47} \cup {ADDR_OFFSET}

\* A segment id is turned into a handle and an offset is added; one address
\* is formed per behaviour
Encode(seg_id, offset) ==
    /\ ev = NoEv
    /\ ev' = Ev("addr", 0, 0, TRUE, seg_id, 0, 0,
                <<OpaqueAddr(seg_id), offset,
                  AddOffset(OpaqueAddr(seg_id), offset)>>, <<>>)
    /\ UNCHANGED <<batcherVars, regionVars, threadVars, lockVars, snap,
                   outcome, aborted, started>>

\* The address is taken apart as tm_read and tm_write do
Decode ==
    /\ ev.op = "addr"
    /\ ev' = Ev("decode", 0, 0, TRUE, SegIdOf(ev.vals[3]), 0, 0,
                <<OffsetOf(ev.vals[3])>>, <<>>)
    /\ UNCHANGED <<batcherVars, regionVars, threadVars, lockVars, snap,
                   outcome, aborted, started>>

NextAddr ==
    \/ \E seg_id \in FIRST_SEG .. (SOURCE_MAX_SEG - 1), offset \in Offsets :
          Encode(seg_id, offset)
    \/ Decode

SpecAddr == Init /\ [][NextAddr]_vars

\* ------------------------------------------------------------------------
\* C40: opaque addresses round-trip and never collide with the sentinels:
\* for every segment id 1..63 and every offset below 2^48, taking apart
\* (seg_id << 48) + offset as (addr >> 48, addr & 0x0000FFFFFFFFFFFF) gives
\* back the segment id and the offset; every handle of a successful
\* allocation has offset 0 and bits 54..63 zero, and differs from NOMEM,
\* from SEG_OVERFLOW and from null.
\* ------------------------------------------------------------------------
C40_AddressRoundTrip ==
    [][/\ ev'.op = "decode" =>
              /\ ev'.seg = ev.seg
              /\ ev'.vals[1] = ev.vals[2]
       /\ ev'.op = "addr" =>
              LET handle == ev'.vals[1] IN
              /\ OffsetOf(handle) = {}
              /\ handle \cap (54 .. 63) = {}
              /\ handle # NOMEM
              /\ handle # SEG_OVERFLOW
              /\ handle # {}
              /\ SegIdOf(handle) = ev'.seg]_vars

\* The address of the last byte the largest segment id can have has been
\* taken apart
C40_Witness ==
    /\ ev.op = "decode"
    /\ ev.seg = SOURCE_MAX_SEG - 1
    /\ ev.vals[1] = ADDR_OFFSET

====
